---- MODULE Spec2Model ----
(***************************************************************************)
(* clawproof: the proof lifecycle.  The model covers the model registry,   *)
(* the preprocessing cache, the two-tier receipt store (hot DashMap in     *)
(* front of a SQLite table written behind by blocking-pool tasks), the     *)
(* submit_proof handler (run_single_prove) and the background prover       *)
(* (prove_and_verify).                                                     *)
(***************************************************************************)
EXTENDS Integers, Sequences, FiniteSets, TLC

(***************************************************************************)
(* Bounds of the exploration.                                              *)
(***************************************************************************)
\* number of submit_proof calls explored (each successful one mints a receipt)
MaxSubmits == 1
\* number of times the wall clock is observed to advance
MaxTicks == 1
\* number of calls of the upload handlers explored (upload, upload-and-prove)
MaxUploads == 1
\* the longest file the magic-byte checks are evaluated on
MaxFileLen == 5
\* the longest raw output the prediction derivation is evaluated on
MaxOutputLen == 4
\* number of shards of the preprocessing DashMap explored (the library takes
\* four per CPU, rounded up to a power of two)
ShardAmount == 2
\* number of threads calling into the receipt store at the same time, and of
\* write-behind tasks queued on the blocking pool, in the store's lock protocol
MaxThreads == 3
MaxPending == 2
\* number of batch_prove calls explored, and the longest batch sent
MaxBatches == 1
MaxBatchLen == 6

(***************************************************************************)
(* Program constants.                                                      *)
(***************************************************************************)
\* cleanup_cache(Duration::from_secs(3600)); the clock advances in these units
CacheMaxAgeSecs == 3600
\* trace_length of the built-in descriptor (1 << 14)
DefaultTraceLength == 16384
\* input_dim of the built-in "authorization" descriptor
AuthorizationInputDim == 64
\* the size limit of an uploaded model file: 5 * 1024 * 1024 bytes
MaxUploadBytes == 5242880
\* batch_prove: "Maximum 5 requests per batch"
BatchCap == 5
\* run_single_prove: text.len() > 10_000 is rejected
MaxTextLen == 10000

\* Option<T>: None is the empty tuple, Some(v) the one-element tuple
None == <<>>
Some(v) == <<v>>
is_some(o) == o # <<>>
unwrap(o) == o[1]

(***************************************************************************)
(* Strings the code inspects character by character are sequences of       *)
(* characters.                                                             *)
(***************************************************************************)
HttpsPrefix == <<"h", "t", "t", "p", "s", ":", "/", "/">>
HttpsHook == <<"h", "t", "t", "p", "s", ":", "/", "/", "t", ".", "l">>
\* no webhook, an https one, a plain http one
Webhooks ==
    {None, Some(HttpsHook), Some(<<"h", "t", "t", "p", ":", "/", "/", "t", ".", "l">>)}

\* str::starts_with
starts_with(s, prefix) ==
    /\ Len(s) >= Len(prefix)
    /\ SubSeq(s, 1, Len(prefix)) = prefix

(***************************************************************************)
(* crypto.rs: Keccak-256 is modelled as an injective tagging of its        *)
(* input; hash_tensor hashes the little-endian bytes of the i32 elements.  *)
(***************************************************************************)
keccak256(data) == <<"0x", data>>

\* i32::to_le_bytes of one element: four bytes, least significant first
\* (\div floors and % is non-negative, which yields the two's complement bytes)
to_le_bytes(v) ==
    <<v % 256, (v \div 256) % 256, (v \div 65536) % 256, (v \div 16777216) % 256>>

RECURSIVE flat_le_bytes(_)
flat_le_bytes(data) ==
    IF data = <<>> THEN <<>>
    ELSE to_le_bytes(Head(data)) \o flat_le_bytes(Tail(data))

hash_tensor(data) == keccak256(flat_le_bytes(data))

\* the uploaded-models directory, per generated model id: None when the id
\* has no directory, else Some(file), where file is the network.onnx in the
\* directory (None when the directory holds none)
VARIABLES
    uploaded_dirs,  \* the uploaded-models directory: model id -> what save left there
    models_dir      \* the model ids with a network.onnx under the models directory

\* Uuid::new_v4 in the upload handlers: the n-th generated model id
upload_id(n) ==
    CASE n = 1 -> "uploaded_1"
      [] n = 2 -> "uploaded_2"
      [] n = 3 -> "uploaded_3"
      [] OTHER -> "uploaded_n"

UploadIds == {upload_id(n) : n \in 1..MaxUploads}

\* model_path.exists(): network.onnx under the models directory, else under
\* the uploaded-models directory
model_path_exists(model_id) ==
    \/ model_id \in models_dir
    \/ /\ model_id \in UploadIds
       /\ is_some(uploaded_dirs[model_id])
       /\ is_some(unwrap(uploaded_dirs[model_id]))

\* the bytes of network.onnx of an admitted model, by model id
ArtifactBytes(model_id) ==
    IF /\ model_id \in UploadIds
       /\ is_some(uploaded_dirs[model_id])
       /\ is_some(unwrap(uploaded_dirs[model_id]))
    THEN unwrap(unwrap(uploaded_dirs[model_id]))
    ELSE <<8, model_id>>

compute_model_commitment(model_id) == keccak256(ArtifactBytes(model_id))

(***************************************************************************)
(* ReceiptStatus and its text form in the durable table.                   *)
(***************************************************************************)
Proving == "Proving"
Verified == "Verified"
Failed == "Failed"
ReceiptStatus == {Proving, Verified, Failed}

as_str(status) ==
    CASE status = Proving -> "proving"
      [] status = Verified -> "verified"
      [] status = Failed -> "failed"

from_str(s) ==
    CASE s = "verified" -> Verified
      [] s = "failed" -> Failed
      [] OTHER -> Proving

\* DateTime::to_rfc3339 and DateTime::parse_from_rfc3339
to_rfc3339(t) == <<"rfc3339", t>>
parse_from_rfc3339(s) == IF Len(s) = 2 /\ s[1] = "rfc3339" THEN Some(s[2]) ELSE None

(***************************************************************************)
(* f64 values.  The one f64 of a receipt is the confidence, a quotient of   *)
(* two small integers: <<num, den, ulps>> is the double that lies `ulps`    *)
(* units in the last place above the correctly rounded quotient num / den.  *)
(***************************************************************************)
RECURSIVE gcd(_, _)
gcd(a, b) == IF b = 0 THEN a ELSE gcd(b, a % b)

\* serde_json reading the digits serde_json wrote for num / den (lowest
\* terms): the digits are accumulated into a u64 significand, converted to
\* f64 and divided by the power of ten of the fraction's length, which can
\* round twice.  The quotients with den <= 24 that come back as another
\* double, with the distance in ulps; every other one comes back as itself.
InexactFractions ==
    (<<1, 11>> :> 1) @@ (<<2, 11>> :> 1) @@ (<<4, 11>> :> 1) @@ (<<5, 11>> :> 1)
        @@ (<<10, 11>> :> 1) @@ (<<2, 13>> :> -1) @@ (<<3, 13>> :> 1) @@ (<<6, 13>> :> 1)
        @@ (<<12, 13>> :> 1) @@ (<<14, 15>> :> -1) @@ (<<2, 17>> :> -1)
        @@ (<<4, 17>> :> -1) @@ (<<8, 17>> :> -1) @@ (<<16, 17>> :> -1)
        @@ (<<3, 19>> :> -1) @@ (<<18, 19>> :> 1) @@ (<<2, 21>> :> 1) @@ (<<4, 21>> :> 1)
        @@ (<<8, 21>> :> 1) @@ (<<20, 21>> :> 1) @@ (<<5, 22>> :> 1) @@ (<<21, 23>> :> 1)
        @@ (<<5, 24>> :> 1)

\* the double read back from the digits written for x (a double that was
\* read back once is read back as itself)
parse_f64(x) ==
    LET lowest == <<x[1] \div gcd(x[1], x[2]), x[2] \div gcd(x[1], x[2])>>
    IN  IF x[3] = 0 /\ lowest \in DOMAIN InexactFractions
        THEN <<x[1], x[2], InexactFractions[lowest]>>
        ELSE x

\* serde_json::to_string / from_str of InferenceOutput: the text holds the
\* shortest digits that identify each number, the integers and the label
\* are read back as written, the confidence through the f64 parser
to_json(output) == <<"json", output>>
UnknownOutput ==
    [raw_output |-> <<>>, predicted_class |-> 0, label |-> "unknown",
     confidence |-> <<0, 1, 0>>]
from_json(s) ==
    IF Len(s) = 2 /\ s[1] = "json"
    THEN [s[2] EXCEPT !.confidence = parse_f64(@)]
    ELSE UnknownOutput

(***************************************************************************)
(* models.rs: descriptors and the registry.                                *)
(***************************************************************************)
FieldSchema(name, min, max) == [name |-> name, min |-> min, max |-> max]

\* the descriptor ModelRegistry::new registers
AuthorizationDescriptor ==
    [id |-> "authorization",
     name |-> "Transaction Authorization",
     input_type |-> "StructuredFields",
     input_dim |-> AuthorizationInputDim,
     input_shape |-> <<1, AuthorizationInputDim>>,
     labels |-> <<"AUTHORIZED", "DENIED">>,
     trace_length |-> DefaultTraceLength,
     fields |-> Some(<<FieldSchema("budget", 0, 15), FieldSchema("trust", 0, 7),
                  FieldSchema("amount", 0, 15), FieldSchema("category", 0, 3),
                  FieldSchema("velocity", 0, 7), FieldSchema("day", 0, 7),
                  FieldSchema("time", 0, 3), FieldSchema("risk", 0, 0)>>),
     model_hash |-> None]

\* a raw-input descriptor that scan_directory finds under the models directory
TinyDescriptor ==
    [id |-> "tiny",
     name |-> "Tiny",
     input_type |-> "Raw",
     input_dim |-> 2,
     input_shape |-> <<1, 2>>,
     labels |-> <<"NO", "YES">>,
     trace_length |-> DefaultTraceLength,
     fields |-> None,
     model_hash |-> None]

\* a structured descriptor load_from_toml reads from a model.toml under the
\* models directory: one field "level" with min 1 and max 3
GradedDescriptor ==
    [id |-> "graded",
     name |-> "Graded",
     input_type |-> "StructuredFields",
     input_dim |-> 4,
     input_shape |-> <<1, 4>>,
     labels |-> <<"LOW", "HIGH">>,
     trace_length |-> DefaultTraceLength,
     fields |-> Some(<<FieldSchema("level", 1, 3)>>),
     model_hash |-> None]

\* ids a caller may name: the registered ones and one nobody registered
ModelIds == {"authorization", "tiny", "nope"}

\* ModelRegistry::register: the id joins the order once, the descriptor is stored
register(reg, model) ==
    [models |-> (model.id :> model) @@ reg.models,
     order |-> IF model.id \in {reg.order[i] : i \in 1..Len(reg.order)} THEN reg.order
               ELSE Append(reg.order, model.id)]

\* ModelRegistry::get
registry_get(reg, id) == IF id \in DOMAIN reg.models THEN Some(reg.models[id]) ELSE None

\* ModelRegistry::list
list(reg) == [i \in 1..Len(reg.order) |-> reg.models[reg.order[i]]]

\* ModelRegistry::new
NewRegistry == register([models |-> <<>>, order |-> <<>>], AuthorizationDescriptor)

RECURSIVE scan_directory_last_wins(_, _)
\* mutant: a descriptor found on disk replaces a registered one
scan_directory_last_wins(reg, found) ==
    IF found = <<>> THEN reg
    ELSE scan_directory_last_wins(register(reg, Head(found)), Tail(found))

\* ModelRegistry::scan_directory over the descriptors found on disk: first wins
RECURSIVE scan_directory(_, _)
scan_directory(reg, found) ==
    IF found = <<>> THEN reg
    ELSE scan_directory(
            IF Head(found).id \in DOMAIN reg.models THEN reg ELSE register(reg, Head(found)),
            Tail(found))

\* main: the registry the server starts with
StartupRegistry == scan_directory(NewRegistry, <<TinyDescriptor, GradedDescriptor>>)

(***************************************************************************)
(* input.rs and the input branch of run_single_prove.                      *)
(***************************************************************************)
\* format!("{}_{}", field_name, value)
feature_key(field_name, value) == <<field_name, "_", value>>

\* the one-hot vocabulary main loads for "authorization" (feature key -> index)
AuthorizationVocab ==
    (feature_key("budget", 5) :> 17) @@ (feature_key("trust", 3) :> 24)

\* the vocab.json next to the graded model: it names the levels 0, 1 and 2
GradedVocab ==
    (feature_key("level", 0) :> 3) @@ (feature_key("level", 1) :> 0)
        @@ (feature_key("level", 2) :> 1)

RECURSIVE zeros(_)
zeros(n) == IF n = 0 THEN <<>> ELSE <<0>> \o zeros(n - 1)

\* two text descriptors load_from_toml reads from a model.toml, one per
\* vocabulary format
SentimentDescriptor ==
    [id |-> "sentiment",
     name |-> "Sentiment",
     input_type |-> "Text",
     input_dim |-> 3,
     input_shape |-> <<1, 3>>,
     labels |-> <<"NEG", "POS">>,
     trace_length |-> DefaultTraceLength,
     fields |-> None,
     model_hash |-> None]

IntentDescriptor == [SentimentDescriptor EXCEPT !.id = "intent", !.name = "Intent"]

\* load_tfidf_vocab of the vocab.json next to "sentiment": word -> (index,
\* (idf * 1000.0) as i32); the index of "far" lies beyond input_dim
SentimentVocab ==
    (<<"g", "o", "o", "d">> :> <<0, 1500>>) @@ (<<"b", "a", "d">> :> <<1, 2250>>)
        @@ (<<"!">> :> <<2, 500>>) @@ (<<"f", "a", "r">> :> <<7, 1000>>)

\* load_token_index_vocab of the vocab.json next to "intent": word -> index
IntentVocab ==
    (<<"b", "u", "y">> :> 0) @@ (<<"s", "e", "l", "l">> :> 2) @@ (<<"?">> :> 9)

\* main: vocabularies by model id, fixed at startup
vocabs ==
    ("authorization" :> [kind |-> "OneHot", map |-> AuthorizationVocab])
        @@ ("graded" :> [kind |-> "OneHot", map |-> GradedVocab])
        @@ ("sentiment" :> [kind |-> "TfIdf", map |-> SentimentVocab])
        @@ ("intent" :> [kind |-> "TokenIndex", map |-> IntentVocab])

\* the characters the tokenizer's classes are modelled on: \w, \s, upper case
Uppercase == <<"A", "B", "D", "G", "O", "S", "U", "Y">>
Lowercase == <<"a", "b", "d", "g", "o", "s", "u", "y">>
word_chars ==
    {Uppercase[i] : i \in 1..Len(Uppercase)} \cup {Lowercase[i] : i \in 1..Len(Lowercase)}
        \cup {"e", "f", "l", "r", "x", "0", "1", "_"}
whitespace == {" ", "\t", "\n"}

\* str::to_lowercase on one character
to_lowercase(c) ==
    IF \E i \in 1..Len(Uppercase) : Uppercase[i] = c
    THEN Lowercase[CHOOSE i \in 1..Len(Uppercase) : Uppercase[i] = c]
    ELSE c

\* TOKENIZER.captures_iter(text) with the regex \w+|[^\w\s], each match
\* lower-cased: the maximal runs of word characters, and every other
\* character that is not white space by itself (run: the word being read)
RECURSIVE tokens_from(_, _, _)
tokens_from(text, i, run) ==
    LET ended == IF run = <<>> THEN <<>> ELSE <<run>>
    IN  IF i > Len(text) THEN ended
        ELSE IF text[i] \in word_chars
        THEN tokens_from(text, i + 1, Append(run, to_lowercase(text[i])))
        ELSE IF text[i] \in whitespace THEN ended \o tokens_from(text, i + 1, <<>>)
        ELSE ended \o <<<<to_lowercase(text[i])>>>> \o tokens_from(text, i + 1, <<>>)

\* build_tfidf_vector: vec[index] += idf for every token the vocabulary
\* holds with index < dim (the sums explored stay far inside i32)
RECURSIVE build_tfidf_from(_, _, _, _)
build_tfidf_from(vec, tokens, vocab, dim) ==
    IF tokens = <<>> THEN vec
    ELSE LET token == Head(tokens)
             hit == token \in DOMAIN vocab /\ vocab[token][1] < dim
             next_vec == IF hit THEN [vec EXCEPT ![vocab[token][1] + 1] = @ + vocab[token][2]]
                         ELSE vec
         IN  build_tfidf_from(next_vec, Tail(tokens), vocab, dim)

build_tfidf_vector(text, vocab, dim) ==
    build_tfidf_from(zeros(dim), tokens_from(text, 1, <<>>), vocab, dim)

\* build_token_index_vector: 1 at the index of every token the vocabulary
\* holds (index < dim)
RECURSIVE build_token_index_from(_, _, _, _)
build_token_index_from(vec, tokens, vocab, dim) ==
    IF tokens = <<>> THEN vec
    ELSE LET token == Head(tokens)
             hit == token \in DOMAIN vocab /\ vocab[token] < dim
             next_vec == IF hit THEN [vec EXCEPT ![vocab[token] + 1] = 1] ELSE vec
         IN  build_token_index_from(next_vec, Tail(tokens), vocab, dim)

build_token_index_vector(text, vocab, dim) ==
    build_token_index_from(zeros(dim), tokens_from(text, 1, <<>>), vocab, dim)

\* build_onehot_vector: indices are 0-based in the code
RECURSIVE build_onehot_from(_, _, _, _, _)
build_onehot_from(vec, fields, field_names, vocab, dim) ==
    IF field_names = <<>> THEN vec
    ELSE LET field_name == Head(field_names)
             key == feature_key(field_name, fields[field_name])
             hit == /\ field_name \in DOMAIN fields
                    /\ key \in DOMAIN vocab
                    /\ vocab[key] < dim
             next_vec == IF hit THEN [vec EXCEPT ![vocab[key] + 1] = 1] ELSE vec
         IN  build_onehot_from(next_vec, fields, Tail(field_names), vocab, dim)

build_onehot_vector(fields, field_names, vocab, dim) ==
    build_onehot_from(zeros(dim), fields, field_names, vocab, dim)

\* the inputs a caller may send: {text?, fields?, raw?}
ProveInput(text, fields, raw) == [text |-> text, fields |-> fields, raw |-> raw]
FieldsS1 == ("budget" :> 5) @@ ("trust" :> 3)
\* field inputs for the graded model: below min, resolved, in range but not in
\* the vocabulary, above max
StructuredInputs ==
    {ProveInput(None, Some("level" :> v), None) : v \in 0..4}

ProveInputs ==
    {ProveInput(None, Some(FieldsS1), None),
     ProveInput(None, Some(("budget" :> 999) @@ ("trust" :> 3)), None),
     ProveInput(None, None, Some(<<0, 1>>)),
     ProveInput(None, None, Some(<<0, 1, 2>>)),
     ProveInput(None, None, None)}

\* Result: Ok(value), or Err((status code, error text))
Ok(v) == [err |-> "ok", msg |-> "", value |-> Some(v)]
Err(kind, msg) == [err |-> kind, msg |-> msg, value |-> None]

RECURSIVE first_over_max(_, _)
\* the schema loop: the first field whose value exceeds schema.max
first_over_max(schemas, fields) ==
    IF schemas = <<>> THEN FALSE
    ELSE \/ /\ Head(schemas).name \in DOMAIN fields
            /\ fields[Head(schemas).name] > Head(schemas).max
         \/ first_over_max(Tail(schemas), fields)

\* run_single_prove, "Build input vector based on model type"
build_input_vector(model_desc, input) ==
    CASE model_desc.input_type = "Text" ->
            IF input.text = None THEN Err("BadRequest", "Text input required for this model")
            ELSE IF Len(unwrap(input.text)) > MaxTextLen
            THEN Err("BadRequest", "Text input exceeds maximum length of 10,000 characters")
            ELSE IF model_desc.id \notin DOMAIN vocabs
            THEN Err("Internal", "Vocabulary not loaded")
            ELSE IF vocabs[model_desc.id].kind = "TfIdf"
            THEN Ok(build_tfidf_vector(unwrap(input.text), vocabs[model_desc.id].map,
                                       model_desc.input_dim))
            ELSE IF vocabs[model_desc.id].kind = "TokenIndex"
            THEN Ok(build_token_index_vector(unwrap(input.text), vocabs[model_desc.id].map,
                                             model_desc.input_dim))
            ELSE Err("Internal", "Wrong vocabulary type for model")
      [] model_desc.input_type = "StructuredFields" ->
            IF input.fields = None
            THEN Err("BadRequest", "Field inputs required for this model")
            ELSE IF /\ is_some(model_desc.fields)
                    /\ first_over_max(unwrap(model_desc.fields), unwrap(input.fields))
            THEN Err("BadRequest", "Field value exceeds max")
            ELSE IF model_desc.id \notin DOMAIN vocabs
            THEN Err("Internal", "Vocabulary not loaded")
            ELSE IF vocabs[model_desc.id].kind # "OneHot"
            THEN Err("Internal", "Wrong vocabulary type for model")
            ELSE Ok(build_onehot_vector(
                        unwrap(input.fields),
                        IF model_desc.fields = None THEN <<>>
                        ELSE [i \in 1..Len(unwrap(model_desc.fields)) |->
                                unwrap(model_desc.fields)[i].name],
                        vocabs[model_desc.id].map,
                        model_desc.input_dim))
      [] model_desc.input_type = "Raw" ->
            IF input.raw = None
            THEN Err("BadRequest", "Raw input vector required for this model")
            ELSE IF Len(unwrap(input.raw)) # model_desc.input_dim
            THEN Err("BadRequest", "Raw input length does not match expected")
            ELSE Ok(unwrap(input.raw))

RECURSIVE product(_)
product(shape) == IF shape = <<>> THEN 1 ELSE Head(shape) * product(Tail(shape))

\* Tensor::new(Some(&input_vector), &input_shape): the data must fill the shape
tensor_new(input_vector, input_shape) ==
    IF Len(input_vector) = product(input_shape) THEN Ok(input_vector)
    ELSE Err("BadRequest", "Failed to create input tensor")

(***************************************************************************)
(* run_single_prove: inference, prediction, hashes, receipt.               *)
(***************************************************************************)
\* model(path).forward(tensor): the ONNX runtime is a deterministic black box;
\* these are the outputs of the two networks on disk
forward(model_id, input_tensor) ==
    CASE model_id = "authorization" -> <<10, 1>>
      [] model_id = "graded" -> <<input_tensor[1] + input_tensor[4], input_tensor[2]>>
      [] OTHER -> <<input_tensor[1] + input_tensor[2], input_tensor[2]>>

\* what the blocking inference task can end as
InferenceOutcomes == {"ok", "error", "panic", "join_error"}

\* Iterator::max_by over enumerate(): a later element replaces the running
\* maximum unless the maximum compares Greater (indices are 0-based)
RECURSIVE max_by_from(_, _, _)
max_by_from(raw_output, i, best) ==
    IF i > Len(raw_output) THEN best
    ELSE max_by_from(raw_output, i + 1,
                     IF raw_output[best + 1] > raw_output[i] THEN best ELSE i - 1)

\* "Determine prediction": .max_by(..).unwrap_or((0, &0))
pred_idx(raw_output) ==
    IF raw_output = <<>> THEN 0 ELSE max_by_from(raw_output, 2, 0)

abs(x) == IF x < 0 THEN -x ELSE x

RECURSIVE sum_abs(_)
sum_abs(raw_output) ==
    IF raw_output = <<>> THEN 0 ELSE abs(Head(raw_output)) + sum_abs(Tail(raw_output))

\* confidence: |raw_output[pred_idx]| / total as an f64, or 0.0
confidence(raw_output, idx) ==
    IF sum_abs(raw_output) > 0
    THEN <<abs(raw_output[idx + 1]), sum_abs(raw_output), 0>>
    ELSE <<0, 1, 0>>

\* labels.get(pred_idx), or format!("class_{}", pred_idx)
class_label(idx) == "class_" \o ToString(idx)

label_of(labels, idx) == IF idx + 1 <= Len(labels) THEN labels[idx + 1] ELSE class_label(idx)

InferenceOutput(raw_output, labels) ==
    [raw_output |-> raw_output,
     predicted_class |-> pred_idx(raw_output),
     label |-> label_of(labels, pred_idx(raw_output)),
     confidence |-> confidence(raw_output, pred_idx(raw_output))]

\* "Compute hashes": the cached digest of the descriptor, or a fresh one
model_hash_of(model_desc) ==
    IF is_some(model_desc.model_hash) THEN unwrap(model_desc.model_hash)
    ELSE compute_model_commitment(model_desc.id)

\* "Create receipt": status Proving and every terminal field None
new_receipt(receipt_id, model_desc, input_vector, raw_output, created_at) ==
    [id |-> receipt_id,
     model_id |-> model_desc.id,
     model_name |-> model_desc.name,
     status |-> Proving,
     created_at |-> created_at,
     completed_at |-> None,
     model_hash |-> model_hash_of(model_desc),
     input_hash |-> hash_tensor(input_vector),
     output_hash |-> hash_tensor(raw_output),
     output |-> InferenceOutput(raw_output, model_desc.labels),
     proof_hash |-> None,
     proof_size |-> None,
     prove_time_ms |-> None,
     verify_time_ms |-> None,
     error |-> None]

(***************************************************************************)
(* receipt.rs: the durable row and the conversions SqliteStore applies.    *)
(* (The `as i64` / `as usize` / `as u128` casts are the identity on the    *)
(* sizes and durations that occur.)                                        *)
(***************************************************************************)
\* SqliteStore::insert: the column values bound to INSERT OR REPLACE
to_row(receipt) ==
    [id |-> receipt.id,
     model_id |-> receipt.model_id,
     model_name |-> receipt.model_name,
     status |-> as_str(receipt.status),
     created_at |-> to_rfc3339(receipt.created_at),
     completed_at |-> IF is_some(receipt.completed_at)
                     THEN Some(to_rfc3339(unwrap(receipt.completed_at)))
                     ELSE None,
     model_hash |-> receipt.model_hash,
     input_hash |-> receipt.input_hash,
     output_hash |-> receipt.output_hash,
     output_json |-> to_json(receipt.output),
     proof_hash |-> receipt.proof_hash,
     proof_size |-> receipt.proof_size,
     prove_time_ms |-> receipt.prove_time_ms,
     verify_time_ms |-> receipt.verify_time_ms,
     error |-> receipt.error]

\* SqliteStore::get: the Receipt rebuilt from a row (utc_now replaces an
\* unparsable created_at)
from_row(row, utc_now) ==
    [id |-> row.id,
     model_id |-> row.model_id,
     model_name |-> row.model_name,
     status |-> from_str(row.status),
     created_at |-> IF is_some(parse_from_rfc3339(row.created_at))
                    THEN unwrap(parse_from_rfc3339(row.created_at)) ELSE utc_now,
     completed_at |-> IF is_some(row.completed_at)
                      THEN parse_from_rfc3339(unwrap(row.completed_at)) ELSE None,
     model_hash |-> row.model_hash,
     input_hash |-> row.input_hash,
     output_hash |-> row.output_hash,
     output |-> from_json(row.output_json),
     proof_hash |-> row.proof_hash,
     proof_size |-> row.proof_size,
     prove_time_ms |-> row.prove_time_ms,
     verify_time_ms |-> row.verify_time_ms,
     error |-> row.error]

\* SqliteStore::get on the table `rows`
sqlite_get(rows, id, utc_now) ==
    IF is_some(rows[id]) THEN Some(from_row(unwrap(rows[id]), utc_now)) ELSE None

\* mutant: COUNT(*) runs over the finished receipts only
get_stats_finished_only(rows) ==
    LET present == {id \in DOMAIN rows : is_some(rows[id])}
        having(status) == Cardinality({id \in present : unwrap(rows[id]).status = status})
    IN  [total_proofs |-> having("verified") + having("failed"),
         verified |-> having("verified"),
         failed |-> having("failed"),
         proving |-> having("proving"),
         by_model |-> [model_id \in {unwrap(rows[id]).model_id : id \in present} |->
                          Cardinality({id \in present :
                                          unwrap(rows[id]).model_id = model_id})]]

\* SqliteStore::get_stats on the table `rows`, both queries under one lock of
\* the connection: COUNT(*), the three SUM(CASE WHEN status = ..) and the
\* GROUP BY model_id counts (the two averages are left out)
get_stats(rows) ==
    LET present == {id \in DOMAIN rows : is_some(rows[id])}
        having(status) == Cardinality({id \in present : unwrap(rows[id]).status = status})
    IN  [total_proofs |-> Cardinality(present),
         verified |-> having("verified"),
         failed |-> having("failed"),
         proving |-> having("proving"),
         by_model |-> [model_id \in {unwrap(rows[id]).model_id : id \in present} |->
                          Cardinality({id \in present :
                                          unwrap(rows[id]).model_id = model_id})]]

(***************************************************************************)
(* prover.rs: the mutators prove_and_verify hands to ReceiptStore::update. *)
(***************************************************************************)
\* mutant: the failure closure forgets completed_at
mark_failed_without_completed_at(r, reason, utc_now) ==
    [r EXCEPT !.status = Failed, !.error = Some(reason)]

\* |r| { r.status = Failed; r.error = Some(reason); r.completed_at = Some(now) }
mark_failed(r, reason, utc_now) ==
    [r EXCEPT !.status = Failed, !.error = Some(reason), !.completed_at = Some(utc_now)]

\* mutant: the success closure stores the proof digest over output_hash
mark_verified_clobbers_output_hash(r, proof_hash, proof_size, prove_ms, verify_ms, utc_now) ==
    [r EXCEPT !.status = Verified,
              !.output_hash = proof_hash,
              !.proof_hash = Some(proof_hash),
              !.proof_size = Some(proof_size),
              !.prove_time_ms = Some(prove_ms),
              !.verify_time_ms = Some(verify_ms),
              !.completed_at = Some(utc_now)]

\* |r| { r.status = Verified; r.proof_* = ..; r.*_time_ms = ..; r.completed_at = .. }
mark_verified(r, proof_hash, proof_size, prove_ms, verify_ms, utc_now) ==
    [r EXCEPT !.status = Verified,
              !.proof_hash = Some(proof_hash),
              !.proof_size = Some(proof_size),
              !.prove_time_ms = Some(prove_ms),
              !.verify_time_ms = Some(verify_ms),
              !.completed_at = Some(utc_now)]

\* the closure as data, and its application
apply_mutator(r, f, utc_now) ==
    IF f.kind = "verified"
    THEN mark_verified(r, f.proof_hash, f.proof_size, f.prove_ms, f.verify_ms, utc_now)
    ELSE mark_failed(r, f.reason, utc_now)

FailWith(reason) ==
    [kind |-> "failed", reason |-> reason, proof_hash |-> <<>>, proof_size |-> 0,
     prove_ms |-> 0, verify_ms |-> 0]

VerifyWith(proof_hash, proof_size, prove_ms, verify_ms) ==
    [kind |-> "verified", reason |-> "", proof_hash |-> proof_hash,
     proof_size |-> proof_size, prove_ms |-> prove_ms, verify_ms |-> verify_ms]

\* Snark::prove followed by serialize_compressed: the proof bytes
proof_bytes(model_id, input_tensor) == <<"snark", model_id>> \o input_tensor

\* Instant::elapsed().as_millis() of the prove and verify phases
ElapsedMs == {1500}

\* how the body of the prover's blocking task can go after the key lookup
ProveOutcomes ==
    {"ok", "prove_panic", "serialize_err", "io_serialize_err", "deserialize_err",
     "io_deserialize_err", "verify_err"}

(***************************************************************************)
(* State.                                                                  *)
(***************************************************************************)
VARIABLES
    registry,       \* AppState.registry: ModelRegistry {models, order}
    preprocessing,  \* AppState.preprocessing: the model ids that have keys
    worker,         \* startup preprocessing worker: index into its model_list
    cache,          \* ReceiptStore.cache: receipt id -> Option<Receipt>
    db,             \* the receipts table: receipt id -> Option<row>
    blocking,       \* write-behind tasks waiting on the blocking pool
    sqlite_errors,  \* receipt ids of the "SQLite insert failed" error lines logged
    prover,         \* the background prover task of each receipt id
    getter,         \* a get that missed the hot map, between db.get and cache.insert
    posts,          \* the webhook POST spawned for each receipt id
    now,            \* Utc::now(), in seconds
    responses,      \* what run_single_prove returned, call by call
    log,            \* per receipt id: the pipeline's inserts, spawns and updates
    observed,       \* per receipt id: what ReceiptStore::get returned
    upload_tasks,   \* upload_model's background preprocessing task, per model id
    pm_call,        \* the prove_model call in flight, and the await it is at
    replies,        \* what upload_model, prove_model and batch_prove returned
    calls,          \* the run_single_prove calls suspended on their inference task
    up_call,        \* the upload_model call suspended on its validation task
    verdicts,       \* per receipt id: what verify read and returned
    probe,          \* the last evaluation of the prediction derivation
    deliveries,     \* per receipt id: the task fire_webhook spawned, and its trail
    hasher,         \* the preprocessing DashMap's hasher: model id -> shard
    health_call,    \* a health call between its two reads: the cache size it read
    threads         \* the receipt store's lock protocol, for one receipt id

admission_vars == <<uploaded_dirs, upload_tasks, pm_call, replies, calls, up_call>>
client_vars == <<verdicts, probe, deliveries, hasher, models_dir, health_call, threads>>

vars ==
    <<registry, preprocessing, worker, cache, db, blocking, sqlite_errors, prover, getter,
      posts, now, responses, log, observed, admission_vars, client_vars>>

\* Uuid::new_v4: the n-th receipt minted gets id n
ReceiptIds == 1..MaxSubmits

\* the snapshot of the registry the startup worker iterates
model_list == list(StartupRegistry)

\* a prover task: where it is, what it was spawned with, whether it holds the
\* Ref its preprocessing lookup returned and, inside the cold branch of an
\* update or of fire_webhook's get, the closure f, the receipt loaded from the
\* table and where the task goes on (`then`)
NoProver ==
    [pc |-> "none", model_id |-> "", input_tensor |-> <<>>, webhook_url |-> None,
     holds_ref |-> FALSE, f |-> None, loaded |-> None, then |-> ""]

\* the models directory at startup: scan_directory registers a subdirectory
\* only when its network.onnx exists (the two scanned manifests carry the id
\* of their subdirectory), the built-in descriptor is registered whether or
\* not models/authorization/network.onnx is there
ModelsDirs ==
    LET scanned == {model_list[i].id : i \in 1..Len(model_list)} \ DOMAIN NewRegistry.models
    IN  {scanned, scanned \cup DOMAIN NewRegistry.models}

\* DashMap::new(): a RandomState hasher, so which keys share a shard differs
\* from process to process
Hashers == [{model_list[i].id : i \in 1..Len(model_list)} -> 0..(ShardAmount - 1)]

\* the state main constructs, over the universe `ids` of receipt ids, with
\* one of `hashers` and with one of the models directories `dirs`
InitOver(ids, hashers, dirs) ==
    /\ registry = StartupRegistry
    /\ preprocessing = {}
    /\ worker = 1
    /\ cache = [id \in ids |-> None]
    /\ db = [id \in ids |-> None]
    /\ blocking = {}
    /\ sqlite_errors = {}
    /\ prover = [id \in ids |-> NoProver]
    /\ getter = [id \in ids |-> None]
    /\ posts = [id \in ids |-> None]
    /\ now = 0
    /\ responses = <<>>
    /\ log = [id \in ids |-> <<>>]
    /\ observed = [id \in ids |-> [terminal |-> None, last |-> None]]
    /\ uploaded_dirs = [model_id \in UploadIds |-> None]
    /\ upload_tasks = [model_id \in UploadIds |-> "none"]
    /\ pm_call = None
    /\ replies = <<>>
    /\ calls = <<>>
    /\ up_call = None
    /\ health_call = None
    /\ verdicts = [id \in ids |-> None]
    /\ probe = None
    /\ deliveries = [id \in ids |-> [pc |-> "none", trail |-> <<>>]]
    /\ hasher \in hashers
    /\ models_dir \in dirs
    /\ threads = [pc |-> [t \in 1..MaxThreads |-> [op |-> "", at |-> "idle"]],
                  conn |-> 0, entry |-> 0, hot |-> FALSE, row |-> FALSE, pending |-> 0]

\* the specifications whose steps do not wait for the shard locks of the
\* preprocessing map start from some hasher and never read it
Init == InitOver(ReceiptIds, {CHOOSE h \in Hashers : TRUE}, ModelsDirs)

(***************************************************************************)
(* main: the startup preprocessing worker and the clock.                   *)
(***************************************************************************)
\* mutant: a failed preprocessing ends the worker
preprocess_next_stops_on_failure(outcome) ==
    /\ worker <= Len(model_list)
    /\ worker' = IF model_path_exists(model_list[worker].id) /\ outcome = "ok"
                 THEN worker + 1 ELSE Len(model_list) + 1
    /\ preprocessing' =
          IF model_path_exists(model_list[worker].id) /\ outcome = "ok"
          THEN preprocessing \cup {model_list[worker].id}
          ELSE preprocessing
    /\ UNCHANGED <<registry, cache, db, blocking, sqlite_errors, prover,
                   getter, posts, now, responses, log, observed>>
    /\ UNCHANGED <<admission_vars, client_vars>>

\* one iteration of `for model_desc in model_list`: a missing artifact is
\* skipped, a panic of the blocking task is a JoinError and skipped, a result
\* is inserted into the preprocessing cache
preprocess_next(outcome) ==
    /\ worker <= Len(model_list)
    /\ worker' = worker + 1
    /\ preprocessing' =
          IF model_path_exists(model_list[worker].id) /\ outcome = "ok"
          THEN preprocessing \cup {model_list[worker].id}
          ELSE preprocessing
    /\ UNCHANGED <<registry, cache, db, blocking, sqlite_errors, prover,
                   getter, posts, now, responses, log, observed>>
    /\ UNCHANGED <<admission_vars, client_vars>>

\* the wall clock moves on by d seconds
tick(d) ==
    /\ now < MaxTicks * CacheMaxAgeSecs
    /\ now' = now + d
    /\ UNCHANGED <<registry, preprocessing, worker, cache, db, blocking,
                   sqlite_errors, prover, getter, posts, responses, log,
                   observed>>
    /\ UNCHANGED <<admission_vars, client_vars>>

(***************************************************************************)
(* ReceiptStore.                                                           *)
(***************************************************************************)
Event(op, before, after) == [op |-> op, before |-> before, after |-> after]

status_of(entry) == IF is_some(entry) THEN Some(unwrap(entry).status) ELSE None

\* ReceiptStore::insert on the store value st = [cache, blocking, log]:
\* hot map now, durable write on the blocking pool
store_insert(st, receipt) ==
    [st EXCEPT !.cache = [st.cache EXCEPT ![receipt.id] = Some(receipt)],
               !.blocking = st.blocking \cup {receipt},
               !.log = [st.log EXCEPT ![receipt.id] =
                           Append(@, Event("insert", status_of(st.cache[receipt.id]),
                                           Some(receipt.status)))]]

\* a write-behind task runs SqliteStore::insert: INSERT OR REPLACE of its snapshot
db_insert(receipt) ==
    /\ receipt \in blocking
    /\ blocking' = blocking \ {receipt}
    /\ db' = [db EXCEPT ![receipt.id] = Some(to_row(receipt))]
    /\ UNCHANGED <<registry, preprocessing, worker, cache, sqlite_errors,
                   prover, getter, posts, now, responses, log, observed>>
    /\ UNCHANGED <<admission_vars, client_vars>>

\* the same task when conn.execute fails: the error is logged
db_insert_failed(receipt) ==
    /\ receipt \in blocking
    /\ blocking' = blocking \ {receipt}
    /\ sqlite_errors' = sqlite_errors \cup {receipt.id}
    /\ UNCHANGED <<registry, preprocessing, worker, cache, db, prover, getter,
                   posts, now, responses, log, observed>>
    /\ UNCHANGED <<admission_vars, client_vars>>

\* what a caller of get is handed: Some(receipt) or None
observe(id, result) ==
    observed' = [observed EXCEPT ![id] =
                    [terminal |-> IF /\ @.terminal = None
                                     /\ is_some(result)
                                     /\ unwrap(result).status # Proving
                                  THEN result ELSE @.terminal,
                     last |-> Some(result)]]

\* ReceiptStore::get, hot hit
get_hit(id) ==
    /\ is_some(cache[id])
    /\ observe(id, cache[id])
    /\ UNCHANGED <<registry, preprocessing, worker, cache, db, blocking,
                   sqlite_errors, prover, getter, posts, now, responses, log>>
    /\ UNCHANGED <<admission_vars, client_vars>>

\* ReceiptStore::get, hot miss: self.db.get(id)?  (None is returned at once)
get_miss(id) ==
    /\ cache[id] = None
    /\ getter[id] = None
    /\ getter' = [getter EXCEPT ![id] = sqlite_get(db, id, now)]
    /\ IF db[id] = None THEN observe(id, None) ELSE UNCHANGED observed
    /\ UNCHANGED <<registry, preprocessing, worker, cache, db, blocking,
                   sqlite_errors, prover, posts, now, responses, log>>
    /\ UNCHANGED <<admission_vars, client_vars>>

\* ReceiptStore::get, after the durable read: cache.insert and return
get_fill(id) ==
    /\ is_some(getter[id])
    /\ cache' = [cache EXCEPT ![id] = getter[id]]
    /\ getter' = [getter EXCEPT ![id] = None]
    /\ observe(id, getter[id])
    /\ UNCHANGED <<registry, preprocessing, worker, db, blocking,
                   sqlite_errors, prover, posts, now, responses, log>>
    /\ UNCHANGED <<admission_vars, client_vars>>

\* mutant: only receipts still Proving are kept
retain_proving_only(entries, cutoff) ==
    [id \in DOMAIN entries |->
        IF is_some(entries[id]) /\ unwrap(entries[id]).created_at > cutoff
                                /\ unwrap(entries[id]).status = Proving
        THEN entries[id] ELSE None]

\* cache.retain(|_, receipt| receipt.created_at > cutoff)
retain(entries, cutoff) ==
    [id \in DOMAIN entries |->
        IF is_some(entries[id]) /\ unwrap(entries[id]).created_at > cutoff
        THEN entries[id] ELSE None]

\* mutant: the periodic task also empties the preprocessing cache
cleanup_cache_evicts_keys(max_age) ==
    /\ cache' = retain(cache, now - max_age)
    /\ preprocessing' = {}
    /\ UNCHANGED <<registry, worker, db, blocking,
                   sqlite_errors, prover, getter, posts, now, responses, log,
                   observed>>
    /\ UNCHANGED <<admission_vars, client_vars>>

\* ReceiptStore::cleanup_cache, run by the periodic task of main
cleanup_cache(max_age) ==
    /\ cache' = retain(cache, now - max_age)
    /\ UNCHANGED <<registry, preprocessing, worker, db, blocking,
                   sqlite_errors, prover, getter, posts, now, responses, log,
                   observed>>
    /\ UNCHANGED <<admission_vars, client_vars>>

(***************************************************************************)
(* handlers/prove.rs: run_single_prove (submit_proof).                     *)
(***************************************************************************)
\* mutant: the same checks in the order resolve, readiness, webhook
admission_resolve_first(reg, pre, model_id, webhook_url) ==
    IF registry_get(reg, model_id) = None
    THEN Err("NotFound", "Model not found")
    ELSE IF model_id \notin pre
    THEN Err("Unavailable", "Model is still loading")
    ELSE IF is_some(webhook_url) /\ ~starts_with(unwrap(webhook_url), HttpsPrefix)
    THEN Err("BadRequest", "webhook_url must use HTTPS")
    ELSE Ok(unwrap(registry_get(reg, model_id)))

\* the three checks at the head of run_single_prove, in the order of the code
admission(reg, pre, model_id, webhook_url) ==
    IF is_some(webhook_url) /\ ~starts_with(unwrap(webhook_url), HttpsPrefix)
    THEN Err("BadRequest", "webhook_url must use HTTPS")
    ELSE IF registry_get(reg, model_id) = None
    THEN Err("NotFound", "Model not found")
    ELSE IF model_id \notin pre
    THEN Err("Unavailable", "Model is still loading")
    ELSE Ok(unwrap(registry_get(reg, model_id)))

\* the blocking inference task behind catch_unwind, awaited by the handler
run_inference(model_id, input_tensor, inference) ==
    CASE inference = "join_error" -> Err("Internal", "Inference task failed")
      [] inference = "panic" -> Err("Internal", "Inference crashed")
      [] inference = "error" -> Err("Internal", "Inference failed")
      [] OTHER -> Ok(forward(model_id, input_tensor))

\* run_single_prove from its entry to the await of its inference task: the
\* error it returns, or what it holds across the await
prepare(reg, pre, model_id, input, webhook_url) ==
    LET admitted == admission(reg, pre, model_id, webhook_url)
        model_desc == unwrap(admitted.value)
        encoded == build_input_vector(model_desc, input)
        tensor == tensor_new(unwrap(encoded.value), model_desc.input_shape)
    IN  IF admitted.err # "ok" THEN admitted
        ELSE IF encoded.err # "ok" THEN encoded
        ELSE IF tensor.err # "ok" THEN tensor
        ELSE Ok([model_id |-> model_id, model_desc |-> model_desc,
                 input_vector |-> unwrap(encoded.value),
                 input_tensor |-> unwrap(tensor.value),
                 webhook_url |-> webhook_url])

\* run_single_prove from the await on: the result of the inference task, the
\* model hash, and the receipt, whose id and created_at are taken here
conclude(call, inference, receipt_id, utc_now) ==
    LET inferred == run_inference(call.model_id, call.input_tensor, inference)
    IN  IF inferred.err # "ok" THEN inferred
        ELSE IF call.model_desc.model_hash = None /\ ~model_path_exists(call.model_id)
        THEN Err("Internal", "Failed to compute model hash")
        ELSE Ok([receipt |-> new_receipt(receipt_id, call.model_desc, call.input_vector,
                                         unwrap(inferred.value), utc_now),
                 input_tensor |-> call.input_tensor])

\* prover::prove_and_verify as called by the handler: spawn_blocking queues
\* the prover task of this receipt
spawn_prover(st, receipt_id, model_id, input_tensor, webhook_url) ==
    [st EXCEPT !.prover = [st.prover EXCEPT ![receipt_id] =
                              [NoProver EXCEPT !.pc = "queued", !.model_id = model_id,
                                               !.input_tensor = input_tensor,
                                               !.webhook_url = webhook_url]],
               !.log = [st.log EXCEPT ![receipt_id] =
                           Append(@, Event("spawn", status_of(st.cache[receipt_id]),
                                           status_of(st.cache[receipt_id])))]]

\* the tail of run_single_prove once the receipt is built: receipts.insert,
\* then prove_and_verify, with no await in between
publish(st, prepared, model_id, webhook_url) ==
    LET inserted == store_insert(st, prepared.receipt)
    IN  spawn_prover(inserted, prepared.receipt.id, model_id, prepared.input_tensor,
                     webhook_url)

\* mutant: the prover is spawned before the handler knows that it succeeded
effects_spawn_on_error(st, result, model_id, webhook_url) ==
    IF result.err = "ok" THEN publish(st, unwrap(result.value), model_id, webhook_url)
    ELSE spawn_prover(st, Len(st.prover), model_id, <<>>, webhook_url)

\* the handler's effect on the store and the prover pool, given its result
effects(st, result, model_id, webhook_url) ==
    IF result.err = "ok" THEN publish(st, unwrap(result.value), model_id, webhook_url)
    ELSE st

Response(model_id, webhook_url, result) ==
    [model_id |-> model_id,
     webhook_url |-> webhook_url,
     err |-> result.err,
     msg |-> result.msg,
     receipt_id |-> IF result.err = "ok" THEN Some(unwrap(result.value).receipt.id)
                    ELSE None]

\* receipts minted by the calls answered so far
minted_in(answers) == Cardinality({i \in 1..Len(answers) : answers[i].err = "ok"})

minted == minted_in(responses)

\* the answer of an upload handler (model_id: the id the call generated)
Reply(handler, result, model_id) ==
    [handler |-> handler, err |-> result.err, msg |-> result.msg, model_id |-> model_id]

\* the answer of batch_prove, with the requests it was sent
BatchReply(result, requests) ==
    [handler |-> "batch", err |-> result.err, msg |-> result.msg, model_id |-> None,
     requests |-> requests]

\* who awaits run_single_prove: submit_proof, prove_model (for the model id
\* it generated) or batch_prove (sent `requests`, with `rest` still to prove)
Caller(handler, upload, requests, rest) ==
    [handler |-> handler, upload |-> upload, requests |-> requests, rest |-> rest]

\* the part of the state a handler that calls run_single_prove works on
world ==
    [cache |-> cache, blocking |-> blocking, log |-> log, prover |-> prover,
     responses |-> responses, calls |-> calls, replies |-> replies]

\* the state takes the values w holds
becomes(w) ==
    /\ cache' = w.cache
    /\ blocking' = w.blocking
    /\ log' = w.log
    /\ prover' = w.prover
    /\ responses' = w.responses
    /\ calls' = w.calls
    /\ replies' = w.replies

\* run_single_prove(..).await? in prove_model and in batch_prove: the error of
\* the call is the answer of the handler
propagate(w, caller, result) ==
    CASE caller.handler = "prove_model" ->
            [w EXCEPT !.replies = Append(@, Reply("prove_model", result, caller.upload))]
      [] caller.handler = "batch" ->
            [w EXCEPT !.replies = Append(@, BatchReply(result, caller.requests))]
      [] OTHER -> w

\* `caller` calls run_single_prove, which runs to its await: it has returned
\* an error by then, or it is suspended on its inference task
enter(w, reg, pre, model_id, input, webhook_url, caller) ==
    LET result == prepare(reg, pre, model_id, input, webhook_url)
        held == unwrap(result.value)
    IN  IF result.err # "ok"
        THEN propagate([w EXCEPT !.responses =
                                    Append(@, Response(model_id, webhook_url, result))],
                       caller, result)
        ELSE [w EXCEPT !.calls =
                 Append(@, [model_id |-> held.model_id, model_desc |-> held.model_desc,
                            input_vector |-> held.input_vector,
                            input_tensor |-> held.input_tensor,
                            webhook_url |-> held.webhook_url, caller |-> caller])]

remove_at(s, i) == SubSeq(s, 1, i - 1) \o SubSeq(s, i + 1, Len(s))

\* the inference task of the i-th suspended call is over: the call runs to its
\* return and its caller goes on, batch_prove to the await of its next item
resume(w, reg, pre, i, inference, utc_now) ==
    LET call == w.calls[i]
        caller == call.caller
        result == conclude(call, inference, minted_in(w.responses) + 1, utc_now)
        returned ==
            [effects(w, result, call.model_id, call.webhook_url) EXCEPT
                !.responses = Append(@, Response(call.model_id, call.webhook_url, result)),
                !.calls = remove_at(@, i)]
    IN  CASE result.err # "ok" -> propagate(returned, caller, result)
          [] result.err = "ok" /\ caller.handler = "prove_model" ->
                [returned EXCEPT !.replies =
                    Append(@, Reply("prove_model", result, caller.upload))]
          [] result.err = "ok" /\ caller.handler = "batch" /\ caller.rest = <<>> ->
                [returned EXCEPT !.replies = Append(@, BatchReply(result, caller.requests))]
          [] result.err = "ok" /\ caller.handler = "batch" /\ caller.rest # <<>> ->
                enter(returned, reg, pre, Head(caller.rest).model_id,
                      Head(caller.rest).input, Head(caller.rest).webhook_url,
                      [caller EXCEPT !.rest = Tail(@)])
          [] OTHER -> returned

\* run_single_prove calls that have started and not yet returned, with the
\* ones that have returned
submits ==
    Len(responses) + Len(calls)
        + (IF is_some(pm_call) /\ unwrap(pm_call).pc # "proving" THEN 1 ELSE 0)

\* POST /prove: submit_proof calls run_single_prove, here up to its await
run_single_prove(model_id, input, webhook_url) ==
    /\ submits < MaxSubmits
    /\ becomes(enter(world, registry, preprocessing, model_id, input, webhook_url,
                     Caller("prove", None, <<>>, <<>>)))
    /\ UNCHANGED <<registry, preprocessing, worker, db, sqlite_errors, getter,
                   posts, now, observed, uploaded_dirs, upload_tasks, pm_call, up_call,
                   client_vars>>

\* mutant: a failed proof rolls the admission back, the cache entry included
run_single_prove_resume_evicts(i, inference) ==
    /\ i \in 1..Len(calls)
    /\ LET w == resume(world, registry, preprocessing, i, inference, now)
       IN  /\ becomes(w)
           /\ preprocessing' =
                 IF w.responses[Len(w.responses)].err = "ok" THEN preprocessing
                 ELSE preprocessing \ {calls[i].model_id}
    /\ pm_call' = IF calls[i].caller.handler = "prove_model" THEN None ELSE pm_call
    /\ UNCHANGED <<registry, worker, db, sqlite_errors, getter,
                   posts, now, observed, uploaded_dirs, upload_tasks, up_call,
                   client_vars>>

\* the inference task a suspended run_single_prove awaits is over, as
\* `inference`: the call returns to its caller
run_single_prove_resume(i, inference) ==
    /\ i \in 1..Len(calls)
    /\ becomes(resume(world, registry, preprocessing, i, inference, now))
    /\ pm_call' = IF calls[i].caller.handler = "prove_model" THEN None ELSE pm_call
    /\ UNCHANGED <<registry, preprocessing, worker, db, sqlite_errors, getter,
                   posts, now, observed, uploaded_dirs, upload_tasks, up_call,
                   client_vars>>

(***************************************************************************)
(* prover.rs: the blocking task spawned by prove_and_verify.               *)
(***************************************************************************)
\* mutant: no fallback to the durable row
update_hot_only(id, f, then) ==
    /\ IF is_some(cache[id])
       THEN LET mutated == apply_mutator(unwrap(cache[id]), f, now)
            IN  /\ cache' = [cache EXCEPT ![id] = Some(mutated)]
                /\ blocking' = blocking \cup {mutated}
                /\ log' = [log EXCEPT ![id] =
                              Append(@, Event("update", status_of(cache[id]),
                                              Some(mutated.status)))]
       ELSE /\ log' = [log EXCEPT ![id] = Append(@, Event("dropped", None, None))]
            /\ UNCHANGED <<cache, blocking>>
    /\ prover' = [prover EXCEPT ![id].pc = then]

\* ReceiptStore::update as called from the prover task, which goes on at
\* `then`: the hot entry is mutated under its shard lock and a write-behind
\* task spawned; on a miss the durable row is read, and the task holds what it
\* read; with no row either, a warning
update(id, f, then) ==
    IF is_some(cache[id])
    THEN LET mutated == apply_mutator(unwrap(cache[id]), f, now)
         IN  /\ cache' = [cache EXCEPT ![id] = Some(mutated)]
             /\ blocking' = blocking \cup {mutated}
             /\ log' = [log EXCEPT ![id] =
                           Append(@, Event("update", status_of(cache[id]),
                                           Some(mutated.status)))]
             /\ prover' = [prover EXCEPT ![id].pc = then]
    ELSE IF is_some(db[id])
    THEN /\ prover' = [prover EXCEPT ![id].pc = "updating", ![id].f = Some(f),
                                     ![id].loaded = sqlite_get(db, id, now),
                                     ![id].then = then]
         /\ UNCHANGED <<cache, blocking, log>>
    ELSE /\ log' = [log EXCEPT ![id] = Append(@, Event("dropped", None, None))]
         /\ prover' = [prover EXCEPT ![id].pc = then]
         /\ UNCHANGED <<cache, blocking>>

\* the cold branch of update after its read: f(&mut receipt), cache.insert,
\* and the write-behind task
update_fill(id) ==
    /\ prover[id].pc = "updating"
    /\ LET mutated == apply_mutator(unwrap(prover[id].loaded), unwrap(prover[id].f), now)
       IN  /\ cache' = [cache EXCEPT ![id] = Some(mutated)]
           /\ blocking' = blocking \cup {mutated}
           /\ log' = [log EXCEPT ![id] =
                         Append(@, Event("update", status_of(prover[id].loaded),
                                         Some(mutated.status)))]
    /\ prover' = [prover EXCEPT ![id].pc = prover[id].then, ![id].f = None,
                                ![id].loaded = None, ![id].then = ""]
    /\ UNCHANGED <<registry, preprocessing, worker, db, sqlite_errors, getter,
                   posts, now, responses, observed>>
    /\ UNCHANGED <<admission_vars, client_vars>>

\* the task starts: preprocessing_map.get(&model_id)
prover_start(id) ==
    /\ prover[id].pc = "queued"
    /\ IF prover[id].model_id \in preprocessing
       THEN /\ prover' = [prover EXCEPT ![id].pc = "proving", ![id].holds_ref = TRUE]
            /\ UNCHANGED <<cache, blocking, log>>
       ELSE update(id, FailWith("No preprocessing available"), "done")
    /\ UNCHANGED <<registry, preprocessing, worker, db, sqlite_errors, getter,
                   posts, now, responses, observed>>
    /\ UNCHANGED <<admission_vars, client_vars>>

\* where the task goes after its terminal update: the two arms of the final
\* match fire the webhook, the early returns do not
after_update(outcome, webhook_url) ==
    IF outcome \in {"ok", "verify_err"} /\ is_some(webhook_url) THEN "webhook" ELSE "done"

\* the mutator each way out of the task applies
mutator_for(outcome, model_id, input_tensor, prove_ms, verify_ms) ==
    CASE outcome = "ok" ->
            VerifyWith(keccak256(proof_bytes(model_id, input_tensor)),
                       Len(proof_bytes(model_id, input_tensor)), prove_ms, verify_ms)
      [] outcome \in {"serialize_err", "io_serialize_err"} ->
            FailWith("Proof generation failed")
      [] OTHER -> FailWith("Proof verification failed")

\* mutant: the deserialization failure arm lacks its `return`, so the task
\* goes on to verify and to a second update
prover_finish_without_return(id, outcome, prove_ms, verify_ms) ==
    /\ prover[id].pc = "proving"
    /\ IF outcome = "prove_panic"
       THEN /\ prover' = [prover EXCEPT ![id].pc = "panicked"]
            /\ UNCHANGED <<cache, blocking, log>>
       ELSE update(id, mutator_for(outcome, prover[id].model_id,
                                   prover[id].input_tensor, prove_ms, verify_ms),
                   IF outcome = "deserialize_err" THEN "proving"
                   ELSE after_update(outcome, prover[id].webhook_url))
    /\ UNCHANGED <<registry, preprocessing, worker, db, sqlite_errors, getter,
                   posts, now, responses, observed>>
    /\ UNCHANGED <<admission_vars, client_vars>>

\* Snark::prove .. verify: a panic of the external prover unwinds the task;
\* every other way out calls update once
prover_finish(id, outcome, prove_ms, verify_ms) ==
    /\ prover[id].pc = "proving"
    /\ IF outcome = "prove_panic"
       THEN /\ prover' = [prover EXCEPT ![id].pc = "panicked"]
            /\ UNCHANGED <<cache, blocking, log>>
       ELSE update(id, mutator_for(outcome, prover[id].model_id,
                                   prover[id].input_tensor, prove_ms, verify_ms),
                   after_update(outcome, prover[id].webhook_url))
    /\ UNCHANGED <<registry, preprocessing, worker, db, sqlite_errors, getter,
                   posts, now, responses, observed>>
    /\ UNCHANGED <<admission_vars, client_vars>>

\* the POST of `receipt` is spawned
spawn_post(id, receipt) ==
    /\ posts' = [posts EXCEPT ![id] = receipt]
    /\ deliveries' = [deliveries EXCEPT ![id] = [pc |-> "sending", trail |-> <<>>]]

\* fire_webhook: receipt_store.get, and on a hit the POST of the receipt it
\* got; on a miss the durable row is read (no row: no POST)
fire_webhook(id) ==
    /\ prover[id].pc = "webhook"
    /\ IF is_some(cache[id])
       THEN /\ spawn_post(id, cache[id])
            /\ prover' = [prover EXCEPT ![id].pc = "done"]
       ELSE IF is_some(db[id])
       THEN /\ prover' = [prover EXCEPT ![id].pc = "webhook_fill",
                                        ![id].loaded = sqlite_get(db, id, now)]
            /\ UNCHANGED <<posts, deliveries>>
       ELSE /\ prover' = [prover EXCEPT ![id].pc = "done"]
            /\ UNCHANGED <<posts, deliveries>>
    /\ UNCHANGED <<registry, preprocessing, worker, cache, db, blocking,
                   sqlite_errors, getter, now, responses, log, observed>>
    /\ UNCHANGED <<admission_vars, verdicts, probe, hasher, models_dir, health_call, threads>>

\* fire_webhook after the durable read of its get: cache.insert, then the POST
fire_webhook_fill(id) ==
    /\ prover[id].pc = "webhook_fill"
    /\ cache' = [cache EXCEPT ![id] = prover[id].loaded]
    /\ spawn_post(id, prover[id].loaded)
    /\ prover' = [prover EXCEPT ![id].pc = "done", ![id].loaded = None]
    /\ UNCHANGED <<registry, preprocessing, worker, db, blocking,
                   sqlite_errors, getter, now, responses, log, observed>>
    /\ UNCHANGED <<admission_vars, verdicts, probe, hasher, models_dir, health_call, threads>>

\* the prover tasks that hold `preprocessing_ref`, the Ref preprocessing_map.get
\* returned: a read guard on the shard of the model's key, alive from the get
\* to the end of the closure (prove, verify, update and fire_webhook included)
read_guards ==
    {id \in DOMAIN prover : prover[id].holds_ref /\ prover[id].pc \notin {"done", "panicked"}}

\* DashMap::insert takes the write lock of the key's shard, which it gets
\* only when no guard on that shard is alive
can_write(key) == \A id \in read_guards : hasher[prover[id].model_id] # hasher[key]

\* one iteration of the startup worker, with the write lock its insert takes
preprocess_next_locked(outcome) ==
    /\ worker <= Len(model_list)
    /\ (model_path_exists(model_list[worker].id) /\ outcome = "ok")
          => can_write(model_list[worker].id)
    /\ preprocess_next(outcome)

\* handlers/metrics.rs: the handler answers with ReceiptStore::get_stats, which
\* is self.db.get_stats()
metrics ==
    /\ probe' = Some(get_stats(db))
    /\ UNCHANGED <<registry, preprocessing, worker, cache, db, blocking, sqlite_errors,
                   prover, getter, posts, now, responses, log, observed,
                   admission_vars, verdicts, deliveries, hasher, models_dir, health_call, threads>>

\* handlers/health.rs, first read: state.preprocessing.len()
health_loaded ==
    /\ health_call = None
    /\ health_call' = Some(Cardinality(preprocessing))
    /\ UNCHANGED <<registry, preprocessing, worker, cache, db, blocking, sqlite_errors,
                   prover, getter, posts, now, responses, log, observed,
                   admission_vars, verdicts, probe, deliveries, hasher, models_dir, threads>>

\* handlers/health.rs, second read and answer: registry.list().len() under
\* the registry's read lock, and ready is the equality of the two lengths
health ==
    /\ is_some(health_call)
    /\ LET loaded == unwrap(health_call)
           total == Len(list(registry))
       IN  probe' = Some([models_loaded |-> loaded, models_total |-> total,
                          ready |-> loaded = total])
    /\ health_call' = None
    /\ UNCHANGED <<registry, preprocessing, worker, cache, db, blocking, sqlite_errors,
                   prover, getter, posts, now, responses, log, observed,
                   admission_vars, verdicts, deliveries, hasher, models_dir, threads>>

(***************************************************************************)
(* receipt.rs: the locks of the receipt store.  `threads` follows the      *)
(* callers of ReceiptStore and the write-behind tasks through the locks    *)
(* they take, for one receipt id: conn is the holder of the                *)
(* Mutex<Connection> (0: free), entry the holder of the write lock on the  *)
(* id's hot entry, hot and row whether the id is in the hot map and in the *)
(* table, pending the write-behind tasks spawned and not yet started.      *)
(***************************************************************************)
\* a thread enters an operation of ReceiptStore, or SqliteStore::insert as a
\* write-behind task: get_stats, list_recent and the write-behind task go
\* straight to the connection, the others to the hot map
store_call(t, op) ==
    /\ threads.pc[t].at = "idle"
    /\ op = "db_insert" => threads.pending > 0
    /\ op \in {"insert", "update"} =>
          threads.pending + Cardinality({u \in 1..MaxThreads :
              threads.pc[u].op \in {"insert", "update"} /\ threads.pc[u].at # "idle"})
            < MaxPending
    /\ threads' = [threads EXCEPT
          !.pc[t] = [op |-> op,
                     at |-> IF op \in {"get_stats", "list_recent", "db_insert"}
                            THEN "conn_wait" ELSE "cache"],
          !.pending = IF op = "db_insert" THEN @ - 1 ELSE @]
    /\ UNCHANGED <<registry, preprocessing, worker, cache, db, blocking, sqlite_errors,
                   prover, getter, posts, now, responses, log, observed,
                   admission_vars, verdicts, probe, deliveries, hasher, models_dir, health_call>>

\* the operation's first access to the hot map, which waits while the entry
\* is write-locked: cache.insert and spawn (insert), cache.get (get),
\* cache.get_mut (update: a hit keeps the RefMut, a miss returns None and
\* holds nothing), cache.retain (cleanup_cache)
store_cache(t, evicts) ==
    /\ threads.pc[t].at = "cache"
    /\ threads.entry = 0
    /\ LET op == threads.pc[t].op
       IN  threads' = [threads EXCEPT
              !.pc[t].at = CASE op = "get" -> IF threads.hot THEN "idle" ELSE "conn_wait"
                             [] op = "update" -> IF threads.hot THEN "entry" ELSE "conn_wait"
                             [] OTHER -> "idle",
              !.entry = IF op = "update" /\ threads.hot THEN t ELSE 0,
              !.hot = CASE op = "insert" -> TRUE
                        [] op = "cleanup_cache" -> threads.hot /\ ~evicts
                        [] OTHER -> threads.hot,
              !.pending = IF op = "insert" THEN @ + 1 ELSE @]
    /\ UNCHANGED <<registry, preprocessing, worker, cache, db, blocking, sqlite_errors,
                   prover, getter, posts, now, responses, log, observed,
                   admission_vars, verdicts, probe, deliveries, hasher, models_dir, health_call>>

\* mutant: the hot branch of update writes through, under the RefMut
store_update_hit_writes_through(t) ==
    /\ threads.pc[t].at = "entry"
    /\ threads' = [threads EXCEPT !.pc[t].at = "conn_wait"]
    /\ UNCHANGED <<registry, preprocessing, worker, cache, db, blocking, sqlite_errors,
                   prover, getter, posts, now, responses, log, observed,
                   admission_vars, verdicts, probe, deliveries, hasher, models_dir, health_call>>

\* the hot branch of update: f(entry.value_mut()), the clone, the spawn of
\* the write-behind task, and the RefMut is dropped
store_update_hit(t) ==
    /\ threads.pc[t].at = "entry"
    /\ threads' = [threads EXCEPT !.pc[t].at = "idle", !.entry = 0, !.pending = @ + 1]
    /\ UNCHANGED <<registry, preprocessing, worker, cache, db, blocking, sqlite_errors,
                   prover, getter, posts, now, responses, log, observed,
                   admission_vars, verdicts, probe, deliveries, hasher, models_dir, health_call>>

\* self.conn.lock(): the Mutex is taken when it is free
store_conn_lock(t) ==
    /\ threads.pc[t].at = "conn_wait"
    /\ threads.conn = 0
    /\ threads' = [threads EXCEPT !.pc[t].at = "conn", !.conn = t]
    /\ UNCHANGED <<registry, preprocessing, worker, cache, db, blocking, sqlite_errors,
                   prover, getter, posts, now, responses, log, observed,
                   admission_vars, verdicts, probe, deliveries, hasher, models_dir, health_call>>

\* the SqliteStore method returns and its MutexGuard is dropped: the
\* write-behind task has written its row unless the statement failed, get
\* and the miss branch of update go on with the row they found, if any
store_conn_unlock(t, written) ==
    /\ threads.pc[t].at = "conn"
    /\ LET op == threads.pc[t].op
       IN  threads' = [threads EXCEPT
              !.conn = 0,
              !.pc[t].at = IF op \in {"get", "update"} /\ threads.row
                           THEN "fill" ELSE "idle",
              !.row = IF op = "db_insert" THEN threads.row \/ written ELSE threads.row]
    /\ UNCHANGED <<registry, preprocessing, worker, cache, db, blocking, sqlite_errors,
                   prover, getter, posts, now, responses, log, observed,
                   admission_vars, verdicts, probe, deliveries, hasher, models_dir, health_call>>

\* cache.insert of the receipt read from the table: the end of get, and of
\* the miss branch of update, which also spawns its write-behind task
store_fill(t) ==
    /\ threads.pc[t].at = "fill"
    /\ threads.entry = 0
    /\ threads' = [threads EXCEPT
          !.pc[t].at = "idle",
          !.hot = TRUE,
          !.pending = IF threads.pc[t].op = "update" THEN @ + 1 ELSE @]
    /\ UNCHANGED <<registry, preprocessing, worker, cache, db, blocking, sqlite_errors,
                   prover, getter, posts, now, responses, log, observed,
                   admission_vars, verdicts, probe, deliveries, hasher, models_dir, health_call>>

\* how client.post(..).send().await can end: a response with a status, or Err
WebhookResults == {"status_200", "status_500", "network_error"}

\* what the webhook task does: a POST of the receipt with its result, a sleep
Posted(receipt, result) == [op |-> "post", receipt |-> receipt, result |-> result]
Slept == [op |-> "sleep", receipt |-> None, result |-> ""]

\* mutant: any result but a 200 is retried
webhook_send_retries_on_status(id, result) ==
    /\ deliveries[id].pc = "sending"
    /\ deliveries' = [deliveries EXCEPT ![id] =
                         [pc |-> IF result # "status_200" THEN "backoff" ELSE "done",
                          trail |-> Append(@.trail, Posted(posts[id], result))]]
    /\ UNCHANGED <<registry, preprocessing, worker, cache, db, blocking, sqlite_errors,
                   prover, getter, posts, now, responses, log, observed,
                   admission_vars, verdicts, probe, hasher, models_dir, health_call, threads>>

\* the spawned task: the first POST; Ok(resp) is logged whatever its status,
\* Err(e) leads to the backoff
webhook_send(id, result) ==
    /\ deliveries[id].pc = "sending"
    /\ deliveries' = [deliveries EXCEPT ![id] =
                         [pc |-> IF result = "network_error" THEN "backoff" ELSE "done",
                          trail |-> Append(@.trail, Posted(posts[id], result))]]
    /\ UNCHANGED <<registry, preprocessing, worker, cache, db, blocking, sqlite_errors,
                   prover, getter, posts, now, responses, log, observed,
                   admission_vars, verdicts, probe, hasher, models_dir, health_call, threads>>

\* tokio::time::sleep(5 s)
webhook_backoff(id) ==
    /\ deliveries[id].pc = "backoff"
    /\ deliveries' = [deliveries EXCEPT ![id] =
                         [pc |-> "retrying", trail |-> Append(@.trail, Slept)]]
    /\ UNCHANGED <<registry, preprocessing, worker, cache, db, blocking, sqlite_errors,
                   prover, getter, posts, now, responses, log, observed,
                   admission_vars, verdicts, probe, hasher, models_dir, health_call, threads>>

\* the second POST; its result is logged at most, nothing follows
webhook_retry(id, result) ==
    /\ deliveries[id].pc = "retrying"
    /\ deliveries' = [deliveries EXCEPT ![id] =
                         [pc |-> "done",
                          trail |-> Append(@.trail, Posted(posts[id], result))]]
    /\ UNCHANGED <<registry, preprocessing, worker, cache, db, blocking, sqlite_errors,
                   prover, getter, posts, now, responses, log, observed,
                   admission_vars, verdicts, probe, hasher, models_dir, health_call, threads>>

(***************************************************************************)
(* models.rs: the registry's own operations, called one at a time.         *)
(***************************************************************************)
\* descriptors a caller of register may pass: ids the registry holds and one
\* it does not, under two names
RegistryCandidates ==
    {[d EXCEPT !.name = name] :
        d \in {AuthorizationDescriptor, TinyDescriptor, [TinyDescriptor EXCEPT !.id = "extra"]},
        name \in {"Tiny", "Renamed"}}

\* registry.write().register(descriptor)
register_call(model) ==
    /\ registry' = register(registry, model)
    /\ UNCHANGED <<preprocessing, worker, cache, db, blocking, sqlite_errors, prover,
                   getter, posts, now, responses, log, observed, admission_vars,
                   client_vars>>

\* the model.toml files scan_directory may find (ModelToml after its defaults)
Manifests ==
    [id : {"tiny", "extra"},
     name : {"Extra"},
     input_type : {"raw", "structured_fields", "image"},
     input_dim : {0, 2},
     input_shape : {<<>>},
     labels : {<<>>, <<"NO", "YES">>},
     trace_length : {3, DefaultTraceLength},
     fields : {<<>>, <<FieldSchema("level", 1, 3)>>, <<FieldSchema("level", 3, 1)>>}]

\* ModelRegistry::load_from_toml on a file that parses as ModelToml
load_from_toml(toml_model) ==
    IF toml_model.input_type \notin {"text", "structured_fields", "raw"} THEN None
    ELSE Some([id |-> toml_model.id,
               name |-> toml_model.name,
               input_type |-> CASE toml_model.input_type = "text" -> "Text"
                                [] toml_model.input_type = "structured_fields" ->
                                        "StructuredFields"
                                [] OTHER -> "Raw",
               input_dim |-> toml_model.input_dim,
               input_shape |-> IF toml_model.input_shape = <<>>
                               THEN <<1, toml_model.input_dim>>
                               ELSE toml_model.input_shape,
               labels |-> toml_model.labels,
               trace_length |-> toml_model.trace_length,
               fields |-> IF toml_model.fields = <<>> THEN None
                          ELSE Some(toml_model.fields),
               model_hash |-> None])

\* scan_directory over a directory with one subdirectory, which may hold this
\* model.toml and may hold a network.onnx
scan_subdir(toml_model, toml_exists, onnx_exists) ==
    /\ registry' = IF toml_exists /\ onnx_exists /\ is_some(load_from_toml(toml_model))
                   THEN scan_directory(registry, <<unwrap(load_from_toml(toml_model))>>)
                   ELSE registry
    /\ UNCHANGED <<preprocessing, worker, cache, db, blocking, sqlite_errors, prover,
                   getter, posts, now, responses, log, observed, admission_vars,
                   client_vars>>

(***************************************************************************)
(* handlers/upload.rs: upload_model and its background preprocessing.      *)
(***************************************************************************)
\* a model file: its length in bytes and its first (up to four) bytes
Artifact(len, head) == [len |-> len, head |-> head]

\* no file, an ONNX file of exactly the limit, a zip archive, a one-byte
\* file, an ONNX file over the limit
ModelFiles ==
    {None,
     Some(Artifact(6, <<80, 75, 3, 4>>)),
     Some(Artifact(1, <<8>>)),
     Some(Artifact(MaxUploadBytes, <<8, 3, 18, 4>>)),
     Some(Artifact(MaxUploadBytes + 1, <<8, 3, 18, 4>>))}

\* the trace_length field of a form: absent, or an integer
TraceLengths == {None, Some(1024)}

\* let mut trace_length = 1 << 14, overwritten by the form's field
trace_length_of(request) ==
    IF is_some(request.trace_length) THEN unwrap(request.trace_length)
    ELSE DefaultTraceLength

\* the multipart forms a caller of upload_model may send; read: whether
\* field.bytes() of the file field returns the bytes or an error (one form
\* whose body is cut off inside the file, with and without a name)
UploadRequests ==
    {r \in [onnx_file : ModelFiles, read : {"ok", "error"}, name : {None, Some("Net")},
            input_dim : {0, 2}, labels : {<<>>, <<"NO", "YES">>},
            trace_length : TraceLengths] :
        r.read = "error" =>
            /\ r.onnx_file = Some(Artifact(6, <<80, 75, 3, 4>>))
            /\ r.input_dim = 2 /\ r.labels # <<>> /\ r.trace_length = None}

\* what create_dir_all and the write of network.onnx can end as: the
\* directory is not created; the file is not created; the file is created
\* and the write fails before its first byte, or after it
SaveOutcomes == {"ok", "mkdir_error", "create_error", "write_error", "short_write"}

\* the uploaded-models directory after create_dir_all(model_dir) and
\* write(model_dir/network.onnx, bytes)
save(dirs, model_id, bytes, saved) ==
    CASE saved = "ok" -> [dirs EXCEPT ![model_id] = Some(Some(bytes))]
      [] saved = "create_error" -> [dirs EXCEPT ![model_id] = Some(None)]
      [] saved = "write_error" -> [dirs EXCEPT ![model_id] = Some(Some(Artifact(0, <<>>)))]
      [] saved = "short_write" ->
            [dirs EXCEPT ![model_id] =
                Some(Some(IF bytes.len > 1 THEN Artifact(1, SubSeq(bytes.head, 1, 1))
                          ELSE Artifact(0, <<>>)))]
      [] OTHER -> dirs

\* the calls of the upload handlers that have generated a model id: the ones
\* answered, and the ones in flight
uploads_minted ==
    Cardinality({i \in 1..Len(replies) : is_some(replies[i].model_id)})
        + (IF is_some(up_call) THEN 1 ELSE 0) + (IF is_some(pm_call) THEN 1 ELSE 0)

\* the calls of the upload handlers so far, batch_prove's in flight included
handler_calls ==
    Len(replies) + (IF is_some(up_call) THEN 1 ELSE 0) + (IF is_some(pm_call) THEN 1 ELSE 0)
        + Cardinality({i \in 1..Len(calls) : calls[i].caller.handler = "batch"})

\* upload_model, from the multipart loop to "labels must be non-empty"
upload_parse(request) ==
    IF is_some(request.onnx_file) /\ request.read = "error"
    THEN Err("BadRequest", "Failed to read ONNX file")
    ELSE IF is_some(request.onnx_file) /\ unwrap(request.onnx_file).len > MaxUploadBytes
    THEN Err("PayloadTooLarge", "ONNX file exceeds 5MB limit")
    ELSE IF request.onnx_file = None THEN Err("BadRequest", "Missing onnx_file field")
    ELSE IF request.name = None THEN Err("BadRequest", "Missing name field")
    ELSE IF request.input_dim = 0 THEN Err("BadRequest", "input_dim must be > 0")
    ELSE IF request.labels = <<>>
    THEN Err("BadRequest", "labels must be a non-empty JSON array")
    ELSE Ok(request)

\* upload_model's "quick magic-byte check": len < 2 || bytes[0] != 0x08 rejects
upload_magic_ok(bytes) == ~(bytes.len < 2 \/ bytes.head[1] # 8)

\* the descriptor upload_model registers
UploadedDescriptor(model_id, request) ==
    [id |-> model_id,
     name |-> unwrap(request.name),
     input_type |-> "Raw",
     input_dim |-> request.input_dim,
     input_shape |-> <<1, request.input_dim>>,
     labels |-> request.labels,
     trace_length |-> trace_length_of(request),
     fields |-> None,
     model_hash |-> Some(keccak256(unwrap(request.onnx_file)))]

\* upload_model up to the await of its validation task: the form is parsed,
\* the directory and the file are written (`saved`), the magic bytes checked
upload_model(request, saved) ==
    /\ handler_calls < MaxUploads
    /\ up_call = None
    /\ LET model_id == upload_id(uploads_minted + 1)
           parsed == upload_parse(request)
       IN  IF parsed.err # "ok"
           THEN /\ replies' = Append(replies, Reply("upload", parsed, None))
                /\ UNCHANGED <<uploaded_dirs, up_call>>
           ELSE IF saved # "ok"
           THEN /\ uploaded_dirs' = save(uploaded_dirs, model_id, unwrap(request.onnx_file), saved)
                /\ replies' = Append(replies,
                                     Reply("upload", Err("Internal", "Failed to save model"),
                                           Some(model_id)))
                /\ UNCHANGED up_call
           ELSE IF ~upload_magic_ok(unwrap(request.onnx_file))
           THEN \* create_dir_all, write, then remove_dir_all
                /\ replies' = Append(replies,
                                     Reply("upload",
                                           Err("BadRequest",
                                               "File does not appear to be an ONNX model"),
                                           Some(model_id)))
                /\ UNCHANGED <<uploaded_dirs, up_call>>
           ELSE /\ uploaded_dirs' = save(uploaded_dirs, model_id, unwrap(request.onnx_file), saved)
                /\ up_call' = Some([model_id |-> model_id, request |-> request])
                /\ UNCHANGED replies
    /\ UNCHANGED <<registry, preprocessing, worker, cache, db, blocking, sqlite_errors,
                   prover, getter, posts, now, responses, log, observed, upload_tasks,
                   pm_call, calls, client_vars>>

\* upload_model from the await on (loads: whether model(path) returned without
\* a panic): the directory is removed, or the model is registered and its
\* preprocessing spawned
upload_validated(loads) ==
    /\ is_some(up_call)
    /\ LET call == unwrap(up_call)
       IN  IF ~loads
           THEN /\ uploaded_dirs' = [uploaded_dirs EXCEPT ![call.model_id] = None]
                /\ replies' = Append(replies,
                                     Reply("upload",
                                           Err("BadRequest",
                                               "Invalid ONNX model - failed to load"),
                                           Some(call.model_id)))
                /\ UNCHANGED <<registry, upload_tasks>>
           ELSE /\ registry' = register(registry,
                                        UploadedDescriptor(call.model_id, call.request))
                /\ upload_tasks' = [upload_tasks EXCEPT ![call.model_id] = "pending"]
                /\ replies' = Append(replies, Reply("upload", Ok("preprocessing"),
                                                    Some(call.model_id)))
                /\ UNCHANGED uploaded_dirs
    /\ up_call' = None
    /\ UNCHANGED <<preprocessing, worker, cache, db, blocking, sqlite_errors, prover,
                   getter, posts, now, responses, log, observed, pm_call, calls,
                   client_vars>>

\* what a preprocessing task behind catch_unwind can end as
PreprocessOutcomes == {"ok", "panic", "join_error"}

\* the task upload_model spawned: a result is inserted into the preprocessing
\* cache, a panic or a join error is logged
upload_preprocess(model_id, outcome) ==
    /\ upload_tasks[model_id] = "pending"
    /\ upload_tasks' = [upload_tasks EXCEPT ![model_id] =
                            IF outcome = "ok" THEN "done" ELSE "failed"]
    /\ preprocessing' = IF outcome = "ok" THEN preprocessing \cup {model_id}
                        ELSE preprocessing
    /\ UNCHANGED <<registry, worker, cache, db, blocking, sqlite_errors, prover, getter,
                   posts, now, responses, log, observed, uploaded_dirs, pm_call,
                   replies, calls, up_call, client_vars>>

(***************************************************************************)
(* handlers/prove_model.rs: upload-and-prove.                              *)
(***************************************************************************)
\* Config::converter_url: CONVERTER_URL is not set
converter_url == None

\* the multipart forms a caller of prove_model may send: input_raw is the
\* text of the field, read as for upload_model, and first names the field
\* that comes first in the body (it matters when input_raw does not parse);
\* the forms that return from inside the loop vary in these fields only
ProveModelRequests ==
    {r \in [model_file : ModelFiles, read : {"ok", "error"},
            source_format : {"onnx", "pytorch"},
            input_raw : {None, Some("[0,1]"), Some("[0,1,2]"), Some("abc")},
            first : {"model_file", "input_raw"}, input_dim : {0, 2},
            webhook_url : Webhooks, trace_length : TraceLengths] :
        /\ r.read = "error" => r.model_file = Some(Artifact(6, <<80, 75, 3, 4>>))
        /\ r.first = "input_raw" => r.input_raw = Some("abc")
        /\ (r.read = "error" \/ r.input_raw = Some("abc")) =>
                /\ r.source_format = "onnx" /\ r.input_dim = 2
                /\ r.webhook_url = None /\ r.trace_length = None}

\* serde_json::from_str::<Vec<i32>> on the text of the input_raw field
from_str_vec_i32(text) ==
    CASE text = "[0,1]" -> Ok(<<0, 1>>)
      [] text = "[0,1,2]" -> Ok(<<0, 1, 2>>)
      [] OTHER -> Err("BadRequest", "Invalid input_raw JSON")

\* prove_model, from the multipart loop to "Convert to ONNX if needed": the
\* two fields whose arm can return from inside the loop, in the order of the
\* body, then the checks after the loop; the form comes out with its
\* input_raw parsed
prove_model_parse(request) ==
    LET file == IF request.model_file = None THEN Ok(None)
                ELSE IF request.read = "error"
                THEN Err("BadRequest", "Failed to read model file")
                ELSE IF unwrap(request.model_file).len > MaxUploadBytes
                THEN Err("PayloadTooLarge", "Model file exceeds 5MB limit")
                ELSE Ok(request.model_file)
        raw == IF request.input_raw = None THEN Ok(None)
               ELSE LET parsed == from_str_vec_i32(unwrap(request.input_raw))
                    IN  IF parsed.err # "ok" THEN parsed ELSE Ok(parsed.value)
        first == IF request.first = "model_file" THEN file ELSE raw
        second == IF request.first = "model_file" THEN raw ELSE file
    IN  IF first.err # "ok" THEN first
        ELSE IF second.err # "ok" THEN second
        ELSE IF unwrap(file.value) = None THEN Err("BadRequest", "Missing model file")
        ELSE IF unwrap(raw.value) = None THEN Err("BadRequest", "Missing input_raw field")
        ELSE IF request.source_format # "onnx" /\ converter_url = None
        THEN Err("NotImplemented", "Conversion requires the converter sidecar")
        ELSE Ok([request EXCEPT !.input_raw = unwrap(raw.value)])

\* mutant: the outer test rejects by itself
prove_model_magic_ok_outer_only(bytes) ==
    ~( \/ bytes.len < 4
       \/ /\ SubSeq(bytes.head, 1, 4) # <<8, 3, 18, 4>>
          /\ SubSeq(bytes.head, 1, 2) # <<8, 3>> )

\* prove_model's magic-byte check: the outer test on the four- and two-byte
\* prefixes, and inside it len < 2 || bytes[0] != 0x08
prove_model_magic_ok(bytes) ==
    ~( /\ \/ bytes.len < 4
          \/ /\ SubSeq(bytes.head, 1, 4) # <<8, 3, 18, 4>>
             /\ SubSeq(bytes.head, 1, 2) # <<8, 3>>
       /\ (bytes.len < 2 \/ bytes.head[1] # 8) )

\* what the awaited preprocessing task of prove_model returns
prove_model_preprocess(outcome) ==
    CASE outcome = "join_error" -> Err("Internal", "Model preprocessing failed")
      [] outcome = "panic" -> Err("BadRequest", "Model preprocessing crashed")
      [] OTHER -> Ok(outcome)

\* if input_dim == 0 { input_dim = input_raw.len() }
effective_dim(request) ==
    IF request.input_dim = 0 THEN Len(unwrap(request.input_raw)) ELSE request.input_dim

\* the descriptor prove_model registers (name and labels at their defaults)
ProveModelDescriptor(model_id, request) ==
    [id |-> model_id,
     name |-> "uploaded",
     input_type |-> "Raw",
     input_dim |-> effective_dim(request),
     input_shape |-> <<1, effective_dim(request)>>,
     labels |-> <<"class_0", "class_1">>,
     trace_length |-> trace_length_of(request),
     fields |-> None,
     model_hash |-> None]

\* prove_model up to the await of its validation task: the form is parsed,
\* the directory and the file are written (`saved`), the magic bytes checked
prove_model(request, saved) ==
    /\ handler_calls < MaxUploads
    /\ submits < MaxSubmits
    /\ pm_call = None
    /\ LET model_id == upload_id(uploads_minted + 1)
           parsed == prove_model_parse(request)
       IN  IF parsed.err # "ok"
           THEN /\ replies' = Append(replies, Reply("prove_model", parsed, None))
                /\ UNCHANGED <<uploaded_dirs, pm_call>>
           ELSE IF saved # "ok"
           THEN /\ uploaded_dirs' = save(uploaded_dirs, model_id, unwrap(request.model_file), saved)
                /\ replies' = Append(replies,
                                     Reply("prove_model",
                                           Err("Internal", "Failed to save model"),
                                           Some(model_id)))
                /\ UNCHANGED pm_call
           ELSE IF ~prove_model_magic_ok(unwrap(request.model_file))
           THEN \* create_dir_all, write, then remove_dir_all
                /\ replies' = Append(replies,
                                     Reply("prove_model",
                                           Err("BadRequest",
                                               "File does not appear to be an ONNX model"),
                                           Some(model_id)))
                /\ UNCHANGED <<uploaded_dirs, pm_call>>
           ELSE /\ uploaded_dirs' = save(uploaded_dirs, model_id, unwrap(request.model_file), saved)
                /\ pm_call' = Some([pc |-> "validating", model_id |-> model_id,
                                    request |-> unwrap(parsed.value)])
                /\ UNCHANGED replies
    /\ UNCHANGED <<registry, preprocessing, worker, cache, db, blocking, sqlite_errors,
                   prover, getter, posts, now, responses, log, observed, upload_tasks,
                   calls, up_call, client_vars>>

\* prove_model from the validation await to the await of its preprocessing
\* task: the directory is removed, or the model is registered
prove_model_validated(loads) ==
    /\ is_some(pm_call)
    /\ unwrap(pm_call).pc = "validating"
    /\ LET call == unwrap(pm_call)
       IN  IF ~loads
           THEN /\ uploaded_dirs' = [uploaded_dirs EXCEPT ![call.model_id] = None]
                /\ replies' = Append(replies,
                                     Reply("prove_model",
                                           Err("BadRequest",
                                               "Invalid ONNX model - failed to load"),
                                           Some(call.model_id)))
                /\ pm_call' = None
                /\ UNCHANGED registry
           ELSE /\ registry' = register(registry,
                                        ProveModelDescriptor(call.model_id, call.request))
                /\ pm_call' = Some([call EXCEPT !.pc = "preprocessing"])
                /\ UNCHANGED <<uploaded_dirs, replies>>
    /\ UNCHANGED <<preprocessing, worker, cache, db, blocking, sqlite_errors, prover,
                   getter, posts, now, responses, log, observed, upload_tasks, calls,
                   up_call, client_vars>>

\* prove_model from the preprocessing await to the await inside
\* run_single_prove: a failed task removes the directory; else the cache entry
\* is inserted and run_single_prove called on the raw input
prove_model_preprocessed(outcome) ==
    /\ is_some(pm_call)
    /\ unwrap(pm_call).pc = "preprocessing"
    /\ LET call == unwrap(pm_call)
           keys == prove_model_preprocess(outcome)
           w == enter(world, registry, preprocessing \cup {call.model_id}, call.model_id,
                      ProveInput(None, None, call.request.input_raw),
                      call.request.webhook_url,
                      Caller("prove_model", Some(call.model_id), <<>>, <<>>))
       IN  IF keys.err # "ok"
           THEN \* remove_dir_all(&model_dir) in the map_err
                /\ uploaded_dirs' = [uploaded_dirs EXCEPT ![call.model_id] = None]
                /\ replies' = Append(replies, Reply("prove_model", keys, Some(call.model_id)))
                /\ pm_call' = None
                /\ UNCHANGED <<preprocessing, cache, blocking, log, prover, responses, calls>>
           ELSE /\ preprocessing' = preprocessing \cup {call.model_id}
                /\ becomes(w)
                /\ pm_call' = IF Len(w.calls) > Len(calls)
                              THEN Some([call EXCEPT !.pc = "proving"]) ELSE None
                /\ UNCHANGED uploaded_dirs
    /\ UNCHANGED <<registry, worker, db, sqlite_errors, getter, posts, now, observed,
                   upload_tasks, up_call, client_vars>>

(***************************************************************************)
(* handlers/batch.rs: batch_prove.                                         *)
(***************************************************************************)
\* the items a batch may hold: two valid requests and one whose raw input has
\* the wrong length
BatchItems ==
    {[model_id |-> "authorization", input |-> ProveInput(None, Some(FieldsS1), None),
      webhook_url |-> None],
     [model_id |-> "tiny", input |-> ProveInput(None, None, Some(<<0, 1>>)),
      webhook_url |-> Some(HttpsHook)],
     [model_id |-> "tiny", input |-> ProveInput(None, None, Some(<<0, 1, 2>>)),
      webhook_url |-> None]}

Batches == UNION {[1..n -> BatchItems] : n \in 0..MaxBatchLen}

\* receipt ids the batches explored can mint
BatchReceiptIds == 1..(MaxBatches * MaxBatchLen)

\* mutant: the cap compares with >=
batch_rejected_at_cap(requests) ==
    IF requests = <<>> THEN Err("BadRequest", "At least one request is required")
    ELSE IF Len(requests) >= BatchCap
    THEN Err("BadRequest", "Maximum 5 requests per batch")
    ELSE Ok(requests)

\* the two checks at the head of batch_prove
batch_rejected(requests) ==
    IF requests = <<>> THEN Err("BadRequest", "At least one request is required")
    ELSE IF Len(requests) > BatchCap
    THEN Err("BadRequest", "Maximum 5 requests per batch")
    ELSE Ok(requests)

\* batch_prove up to its first await: the two checks, then
\* for item in requests { run_single_prove(..).await? } with the first item
batch_prove(requests) ==
    /\ handler_calls < MaxBatches
    /\ LET checked == batch_rejected(requests)
       IN  IF checked.err # "ok"
           THEN /\ replies' = Append(replies, BatchReply(checked, requests))
                /\ UNCHANGED <<cache, blocking, log, prover, responses, calls>>
           ELSE becomes(enter(world, registry, preprocessing, Head(requests).model_id,
                              Head(requests).input, Head(requests).webhook_url,
                              Caller("batch", None, requests, Tail(requests))))
    /\ UNCHANGED <<registry, preprocessing, worker, db, sqlite_errors, getter, posts,
                   now, observed, uploaded_dirs, upload_tasks, pm_call, up_call,
                   client_vars>>

(***************************************************************************)
(* handlers/verify.rs: verify.                                             *)
(***************************************************************************)
VerifyResponse(valid, receipt_id, status) ==
    [valid |-> valid, receipt_id |-> receipt_id, status |-> status]

\* match receipt.status { Verified => .., Proving => .., Failed => .. }
verify_response(receipt) ==
    CASE receipt.status = Verified -> VerifyResponse(TRUE, receipt.id, "verified")
      [] receipt.status = Proving -> VerifyResponse(FALSE, receipt.id, "proving")
      [] receipt.status = Failed -> VerifyResponse(FALSE, receipt.id, "failed")

\* verify, given what state.receipts.get returned
verify_result(got) ==
    IF got = None THEN Err("NotFound", "Receipt not found")
    ELSE Ok(verify_response(unwrap(got)))

\* what verify read and what it answered
Verdict(got) == Some([got |-> got, reply |-> verify_result(got)])

\* verify when receipts.get hits the hot map
verify_hit(id) ==
    /\ is_some(cache[id])
    /\ verdicts' = [verdicts EXCEPT ![id] = Verdict(cache[id])]
    /\ UNCHANGED <<registry, preprocessing, worker, cache, db, blocking, sqlite_errors,
                   prover, getter, posts, now, responses, log, observed,
                   admission_vars, probe, deliveries, hasher, models_dir, health_call, threads>>

\* verify when receipts.get misses the hot map: the durable read; no row is
\* NotFound at once
verify_miss(id) ==
    /\ cache[id] = None
    /\ getter[id] = None
    /\ getter' = [getter EXCEPT ![id] = sqlite_get(db, id, now)]
    /\ IF db[id] = None THEN verdicts' = [verdicts EXCEPT ![id] = Verdict(None)]
       ELSE UNCHANGED verdicts
    /\ UNCHANGED <<registry, preprocessing, worker, cache, db, blocking, sqlite_errors,
                   prover, posts, now, responses, log, observed, admission_vars, probe, deliveries, hasher, models_dir, health_call, threads>>

\* verify after the durable read: receipts.get fills the hot map, then the
\* match on the status
verify_fill(id) ==
    /\ is_some(getter[id])
    /\ cache' = [cache EXCEPT ![id] = getter[id]]
    /\ getter' = [getter EXCEPT ![id] = None]
    /\ verdicts' = [verdicts EXCEPT ![id] = Verdict(getter[id])]
    /\ UNCHANGED <<registry, preprocessing, worker, db, blocking, sqlite_errors,
                   prover, posts, now, responses, log, observed, admission_vars, probe, deliveries, hasher, models_dir, health_call, threads>>

(***************************************************************************)
(* The prediction derivation of run_single_prove, on its own.              *)
(***************************************************************************)
\* raw outputs a model may produce: non-empty vectors over a few values
RawOutputs == UNION {[1..n -> {-1, 0, 1}] : n \in 1..MaxOutputLen}

\* "Determine prediction" applied to the raw output of an inference
predict(raw_output) ==
    /\ probe' = Some(InferenceOutput(raw_output, AuthorizationDescriptor.labels))
    /\ UNCHANGED <<registry, preprocessing, worker, cache, db, blocking, sqlite_errors,
                   prover, getter, posts, now, responses, log, observed,
                   admission_vars, verdicts, deliveries, hasher, models_dir, health_call, threads>>

(***************************************************************************)
(* The magic-byte checks of the two upload handlers, on their own.         *)
(***************************************************************************)
\* files of up to MaxFileLen bytes over a few byte values, as Artifacts
SmallFiles ==
    {Artifact(len, head) :
        len \in 0..MaxFileLen,
        head \in UNION {[1..n -> {3, 4, 8, 18}] : n \in 0..4}}

\* both handlers' checks applied to the same bytes
check_magic(bytes) ==
    /\ bytes.len >= Len(bytes.head)
    /\ Len(bytes.head) = 4 \/ Len(bytes.head) = bytes.len
    /\ probe' = Some([bytes |-> bytes,
                      upload |-> upload_magic_ok(bytes),
                      prove_model |-> prove_model_magic_ok(bytes)])
    /\ UNCHANGED <<registry, preprocessing, worker, cache, db, blocking, sqlite_errors,
                   prover, getter, posts, now, responses, log, observed,
                   admission_vars, verdicts, deliveries, hasher, models_dir, health_call, threads>>

\* the text models a manifest can describe: one with a TF-IDF vocabulary, one
\* with a token-index vocabulary, one whose vocabulary was not loaded
TextDescriptors ==
    {SentimentDescriptor, IntentDescriptor, [SentimentDescriptor EXCEPT !.id = "nope"]}

\* a text one character over the limit
LongText == [i \in 1..(MaxTextLen + 1) |-> "a"]

\* requests to a text model: no text, words of the vocabularies in mixed
\* case with punctuation, words of neither, and the long text
TextInputs ==
    {ProveInput(None, None, Some(<<0, 1>>)),
     ProveInput(Some(<<"G", "o", "o", "d", " ", "b", "a", "d", "!", " ", "g", "o", "o", "d">>),
                None, None),
     ProveInput(Some(<<"B", "U", "Y", " ", "b", "u", "y", "?">>), None, None),
     ProveInput(Some(<<"s", "o", "s", "o">>), None, None),
     ProveInput(Some(LongText), None, None)}

\* the input branch of run_single_prove for a text model, on its own
encode(model_desc, input) ==
    /\ probe' = Some([model_desc |-> model_desc, input |-> input,
                      encoded |-> build_input_vector(model_desc, input)])
    /\ UNCHANGED <<registry, preprocessing, worker, cache, db, blocking, sqlite_errors,
                   prover, getter, posts, now, responses, log, observed,
                   admission_vars, verdicts, deliveries, hasher, models_dir, health_call, threads>>

(***************************************************************************)
(* The system.                                                             *)
(***************************************************************************)
Next ==
    \/ \E outcome \in {"ok", "panic"} : preprocess_next(outcome)
    \/ tick(CacheMaxAgeSecs)
    \/ \E model_id \in ModelIds, input \in ProveInputs, webhook_url \in Webhooks :
            run_single_prove(model_id, input, webhook_url)
    \/ \E i \in 1..Len(calls), inference \in InferenceOutcomes :
            run_single_prove_resume(i, inference)
    \/ \E receipt \in blocking : db_insert(receipt)
    \/ \E receipt \in blocking : db_insert_failed(receipt)
    \/ \E id \in ReceiptIds : get_hit(id)
    \/ \E id \in ReceiptIds : get_miss(id)
    \/ \E id \in ReceiptIds : get_fill(id)
    \/ cleanup_cache(CacheMaxAgeSecs)
    \/ \E id \in ReceiptIds : prover_start(id)
    \/ \E id \in ReceiptIds, outcome \in ProveOutcomes, prove_ms \in ElapsedMs,
          verify_ms \in ElapsedMs :
            prover_finish(id, outcome, prove_ms, verify_ms)
    \/ \E id \in ReceiptIds : update_fill(id)
    \/ \E id \in ReceiptIds : fire_webhook(id)
    \/ \E id \in ReceiptIds : fire_webhook_fill(id)

Spec == Init /\ [][Next]_vars

\* how far the clock is seen to move between two steps: half the maximum
\* cache age, or all of it
TickSteps == {CacheMaxAgeSecs \div 2, CacheMaxAgeSecs}

\* the receipt store under a clock that shows hot entries younger than the
\* maximum age, exactly that old, and older
SpecCleanup ==
    /\ Init
    /\ [][
          \/ \E outcome \in {"ok", "panic"} : preprocess_next(outcome)
          \/ \E d \in TickSteps : tick(d)
          \/ \E model_id \in ModelIds, input \in ProveInputs, webhook_url \in Webhooks :
                  run_single_prove(model_id, input, webhook_url)
          \/ \E i \in 1..Len(calls), inference \in InferenceOutcomes :
                run_single_prove_resume(i, inference)
          \/ \E receipt \in blocking : db_insert(receipt)
          \/ \E receipt \in blocking : db_insert_failed(receipt)
          \/ \E id \in ReceiptIds : get_hit(id)
          \/ \E id \in ReceiptIds : get_miss(id)
          \/ \E id \in ReceiptIds : get_fill(id)
          \/ cleanup_cache(CacheMaxAgeSecs)
          \/ \E id \in ReceiptIds : prover_start(id)
          \/ \E id \in ReceiptIds, outcome \in ProveOutcomes, prove_ms \in ElapsedMs,
                verify_ms \in ElapsedMs :
                  prover_finish(id, outcome, prove_ms, verify_ms)
          \/ \E id \in ReceiptIds : update_fill(id)
       ]_vars

\* the model admission paths: startup worker, upload, upload-and-prove, and
\* the proofs submitted against what they admit
AdmissionNext ==
    \/ \E outcome \in {"ok", "panic"} : preprocess_next(outcome)
    \/ \E request \in UploadRequests, saved \in SaveOutcomes : upload_model(request, saved)
    \/ \E loads \in BOOLEAN : upload_validated(loads)
    \/ \E model_id \in UploadIds, outcome \in PreprocessOutcomes :
            upload_preprocess(model_id, outcome)
    \/ \E request \in ProveModelRequests, saved \in SaveOutcomes :
            prove_model(request, saved)
    \/ \E loads \in BOOLEAN : prove_model_validated(loads)
    \/ \E outcome \in PreprocessOutcomes : prove_model_preprocessed(outcome)
    \/ \E model_id \in ModelIds \cup UploadIds, input \in ProveInputs,
          webhook_url \in Webhooks :
            run_single_prove(model_id, input, webhook_url)
    \/ \E i \in 1..Len(calls), inference \in InferenceOutcomes :
            run_single_prove_resume(i, inference)
    \/ \E id \in ReceiptIds : prover_start(id)
    \/ \E id \in ReceiptIds, outcome \in ProveOutcomes, prove_ms \in ElapsedMs,
          verify_ms \in ElapsedMs :
            prover_finish(id, outcome, prove_ms, verify_ms)
    \/ \E id \in ReceiptIds : fire_webhook(id)

SpecAdmission == Init /\ [][AdmissionNext]_vars

\* batches submitted while the startup worker runs
SpecBatch ==
    /\ InitOver(BatchReceiptIds, {CHOOSE h \in Hashers : TRUE}, ModelsDirs)
    /\ [][
          \/ \E outcome \in {"ok", "panic"} : preprocess_next(outcome)
          \/ \E requests \in Batches : batch_prove(requests)
          \/ \E i \in 1..Len(calls), inference \in InferenceOutcomes :
                run_single_prove_resume(i, inference)
       ]_vars

\* the proof lifecycle with verify as the reader of the store
SpecVerify ==
    /\ Init
    /\ [][
          \/ \E outcome \in {"ok", "panic"} : preprocess_next(outcome)
          \/ tick(CacheMaxAgeSecs)
          \/ \E model_id \in ModelIds, input \in ProveInputs, webhook_url \in Webhooks :
                  run_single_prove(model_id, input, webhook_url)
          \/ \E i \in 1..Len(calls), inference \in InferenceOutcomes :
                run_single_prove_resume(i, inference)
          \/ \E receipt \in blocking : db_insert(receipt)
          \/ \E receipt \in blocking : db_insert_failed(receipt)
          \/ \E id \in ReceiptIds : verify_hit(id)
          \/ \E id \in ReceiptIds : verify_miss(id)
          \/ \E id \in ReceiptIds : verify_fill(id)
          \/ cleanup_cache(CacheMaxAgeSecs)
          \/ \E id \in ReceiptIds : prover_start(id)
          \/ \E id \in ReceiptIds, outcome \in ProveOutcomes, prove_ms \in ElapsedMs,
                verify_ms \in ElapsedMs :
                  prover_finish(id, outcome, prove_ms, verify_ms)
          \/ \E id \in ReceiptIds : update_fill(id)
          \/ \E id \in ReceiptIds : fire_webhook(id)
          \/ \E id \in ReceiptIds : fire_webhook_fill(id)
       ]_vars

\* short batches, their write-behind tasks and provers, and the metrics
\* endpoint reading the table
SpecStats ==
    /\ InitOver(BatchReceiptIds, {CHOOSE h \in Hashers : TRUE}, ModelsDirs)
    /\ [][
          \/ \E outcome \in {"ok", "panic"} : preprocess_next(outcome)
          \/ \E requests \in {b \in Batches : Len(b) <= 2} : batch_prove(requests)
          \/ \E i \in 1..Len(calls), inference \in InferenceOutcomes :
                run_single_prove_resume(i, inference)
          \/ \E receipt \in blocking : db_insert(receipt)
          \/ \E receipt \in blocking : db_insert_failed(receipt)
          \/ \E id \in BatchReceiptIds : prover_start(id)
          \/ \E id \in BatchReceiptIds, outcome \in ProveOutcomes, prove_ms \in ElapsedMs,
                verify_ms \in ElapsedMs :
                  prover_finish(id, outcome, prove_ms, verify_ms)
          \/ metrics
       ]_vars

\* the prediction derivation over every raw output of the bounded set
SpecPredict ==
    /\ Init
    /\ [][
          \E raw_output \in RawOutputs : predict(raw_output)
       ]_vars

\* the proof lifecycle with the webhook task, without the readers
WebhookNext ==
    \/ \E outcome \in {"ok", "panic"} : preprocess_next(outcome)
    \/ tick(CacheMaxAgeSecs)
    \/ \E input \in ProveInputs, webhook_url \in Webhooks :
          run_single_prove("authorization", input, webhook_url)
    \/ \E i \in 1..Len(calls), inference \in InferenceOutcomes :
          run_single_prove_resume(i, inference)
    \/ \E receipt \in blocking : db_insert(receipt)
    \/ \E receipt \in blocking : db_insert_failed(receipt)
    \/ cleanup_cache(CacheMaxAgeSecs)
    \/ \E id \in ReceiptIds : prover_start(id)
    \/ \E id \in ReceiptIds, outcome \in ProveOutcomes, prove_ms \in ElapsedMs,
          verify_ms \in ElapsedMs :
            prover_finish(id, outcome, prove_ms, verify_ms)
    \/ \E id \in ReceiptIds : update_fill(id)
    \/ \E id \in ReceiptIds : fire_webhook(id)
    \/ \E id \in ReceiptIds : fire_webhook_fill(id)
    \/ \E id \in ReceiptIds, result \in WebhookResults : webhook_send(id, result)
    \/ \E id \in ReceiptIds : webhook_backoff(id)
    \/ \E id \in ReceiptIds, result \in WebhookResults : webhook_retry(id, result)

SpecWebhook == Init /\ [][WebhookNext]_vars

\* the magic-byte checks over every small file
SpecMagic ==
    /\ Init
    /\ [][
          \E bytes \in SmallFiles : check_magic(bytes)
       ]_vars

\* the registry under its own operations
SpecRegistry ==
    /\ InitOver(ReceiptIds, {CHOOSE h \in Hashers : TRUE},
                {d \in ModelsDirs : DOMAIN NewRegistry.models \subseteq d})
    /\ [][
          \/ \E model \in RegistryCandidates : register_call(model)
          \/ \E toml_model \in Manifests, toml_exists \in BOOLEAN, onnx_exists \in BOOLEAN :
                scan_subdir(toml_model, toml_exists, onnx_exists)
       ]_vars

\* the startup worker and callers of the structured model
SpecStructured ==
    /\ Init
    /\ [][
          \/ \E outcome \in {"ok", "panic"} : preprocess_next(outcome)
          \/ \E input \in StructuredInputs, w \in Webhooks :
                run_single_prove("graded", input, w)
          \/ \E i \in 1..Len(calls), inference \in InferenceOutcomes :
                run_single_prove_resume(i, inference)
          \/ \E model_desc \in TextDescriptors, input \in TextInputs :
                encode(model_desc, input)
       ]_vars

\* the same, with the startup worker scheduled: a tokio task that is never
\* blocked for good, each of whose blocking preprocessing jobs returns or panics
SpecStartup ==
    /\ SpecStructured
    /\ WF_vars(\E outcome \in {"ok", "panic"} : preprocess_next(outcome))

\* the startup worker and the provers, with the shard locks of the
\* preprocessing map, under every hasher
LocksNext ==
    \/ \E outcome \in {"ok", "panic"} : preprocess_next_locked(outcome)
    \/ \E input \in ProveInputs, webhook_url \in Webhooks :
          run_single_prove("authorization", input, webhook_url)
    \/ \E i \in 1..Len(calls), inference \in InferenceOutcomes :
          run_single_prove_resume(i, inference)
    \/ \E id \in ReceiptIds : prover_start(id)
    \/ \E id \in ReceiptIds, outcome \in ProveOutcomes, prove_ms \in ElapsedMs,
          verify_ms \in ElapsedMs :
            prover_finish(id, outcome, prove_ms, verify_ms)
    \/ \E id \in ReceiptIds : fire_webhook(id)

SpecLocks == InitOver(ReceiptIds, Hashers, ModelsDirs) /\ [][LocksNext]_vars

\* every interleaving of the receipt store's callers and write-behind tasks
StoreNext ==
    \/ \E t \in 1..MaxThreads,
          op \in {"insert", "get", "update", "cleanup_cache", "get_stats", "list_recent",
                  "db_insert"} :
            store_call(t, op)
    \/ \E t \in 1..MaxThreads, evicts \in BOOLEAN : store_cache(t, evicts)
    \/ \E t \in 1..MaxThreads : store_update_hit(t)
    \/ \E t \in 1..MaxThreads : store_conn_lock(t)
    \/ \E t \in 1..MaxThreads, written \in BOOLEAN : store_conn_unlock(t, written)
    \/ \E t \in 1..MaxThreads : store_fill(t)

SpecStore == Init /\ [][StoreNext]_vars

\* the ways a model is admitted, and the health endpoint
SpecHealth ==
    /\ Init
    /\ [][
          \/ \E outcome \in {"ok", "panic"} : preprocess_next(outcome)
          \/ \E request \in UploadRequests, saved \in SaveOutcomes :
                upload_model(request, saved)
          \/ \E loads \in BOOLEAN : upload_validated(loads)
          \/ \E model_id \in UploadIds, outcome \in PreprocessOutcomes :
                upload_preprocess(model_id, outcome)
          \/ \E request \in ProveModelRequests, saved \in SaveOutcomes :
                prove_model(request, saved)
          \/ \E loads \in BOOLEAN : prove_model_validated(loads)
          \/ \E outcome \in PreprocessOutcomes : prove_model_preprocessed(outcome)
          \/ \E i \in 1..Len(calls), inference \in InferenceOutcomes :
                run_single_prove_resume(i, inference)
          \/ health_loaded
          \/ health
       ]_vars

(***************************************************************************)
(* Properties.                                                             *)
(***************************************************************************)
events(id, op) == {i \in 1..Len(log[id]) : log[id][i].op = op}

\* what get(id) would return in this state if called alone: the hot entry,
\* else the durable row
visible(id) == IF is_some(cache[id]) THEN cache[id] ELSE sqlite_get(db, id, now)

terminal(entry) == is_some(entry) /\ unwrap(entry).status \in {Verified, Failed}

\* C1: every receipt is inserted with status Proving, every status change the
\* pipeline applies through update goes from Proving to Verified or to Failed,
\* and a receipt id undergoes at most one such transition.
C1_StatusStateMachine ==
    \A id \in ReceiptIds :
        /\ \A i \in events(id, "insert") : log[id][i].after = Some(Proving)
        /\ \A i \in events(id, "update") :
              /\ log[id][i].before = Some(Proving)
              /\ log[id][i].after \in {Some(Verified), Some(Failed)}
        /\ Cardinality(events(id, "update")) <= 1

C1_Witness ==
    \E id \in ReceiptIds :
        /\ events(id, "insert") # {}
        /\ \E i \in events(id, "update") : log[id][i].after = Some(Verified)
        /\ \E i \in 1..Len(responses) : responses[i].receipt_id = Some(id)

\* C2: once a get(id) has returned a Verified or Failed receipt, every later
\* get(id) returns that same receipt (never Proving again, never absent).
C2_TerminalAbsorbing ==
    \A id \in ReceiptIds :
        is_some(observed[id].terminal) => observed[id].last = Some(observed[id].terminal)

\* C3: once the receipt is terminal and every write-behind task scheduled for
\* it has run without error, the durable row holds the terminal receipt: it
\* is the row of the hot entry, and a get against an empty hot map reads a
\* terminal receipt from it (the Proving write of insert never lands on top
\* of the write of update).
C3_RestartDurability ==
    \A id \in ReceiptIds :
        ( /\ events(id, "update") # {}
          /\ \A receipt \in blocking : receipt.id # id
          /\ id \notin sqlite_errors )
        => /\ terminal(sqlite_get(db, id, now))
           /\ is_some(cache[id]) => db[id] = Some(to_row(unwrap(cache[id])))

\* C4: every receipt created by submit_proof reaches a terminal status that
\* get can observe; as a statement a finite run refutes: once the prover
\* task of a receipt has ended, get(id) finds the receipt Verified or Failed.
C4_ProverEndsTerminal ==
    \A id \in ReceiptIds :
        prover[id].pc \in {"done", "panicked"} => terminal(visible(id))

\* C5: a panic of the external prover inside the background task leaves the
\* process running and the receipt transitioned to Failed.
C5_PanicMarksFailed ==
    \A id \in ReceiptIds :
        prover[id].pc = "panicked"
        => \E i \in events(id, "update") : log[id][i].after = Some(Failed)

\* C6: a submit_proof that returned an error inserted no receipt in either
\* tier and spawned no prover: whatever the store, the blocking pool or the
\* prover pool holds belongs to a call that returned Ok with that receipt id.
C6_FailedSubmitNoEffect ==
    /\ \A id \in ReceiptIds :
          ( \/ is_some(cache[id])
            \/ is_some(db[id])
            \/ \E receipt \in blocking : receipt.id = id
            \/ prover[id].pc # "none"
            \/ log[id] # <<>> )
          => \E i \in 1..Len(responses) :
                responses[i].err = "ok" /\ responses[i].receipt_id = Some(id)
    /\ \A i \in 1..Len(responses) :
          responses[i].err # "ok" => responses[i].receipt_id = None

C6_Witness ==
    /\ Len(responses) >= 1
    /\ responses[Len(responses)].err \in {"NotFound", "Unavailable", "BadRequest", "Internal"}
    /\ responses[Len(responses)].msg = "Inference crashed"

bad_webhook(webhook_url) ==
    is_some(webhook_url) /\ SubSeq(unwrap(webhook_url), 1, 8) # HttpsPrefix

\* the response a step appended, if it appended one
answered == Len(responses') = Len(responses) + 1
answer == responses'[Len(responses')]

\* C7 as stated: the checks apply in the order resolve (NotFound), readiness
\* (Unavailable), webhook (BadRequest), and the first that fails decides.
C7_SpecOrder ==
    [][answered =>
          IF answer.model_id \notin DOMAIN registry.models THEN answer.err = "NotFound"
          ELSE IF answer.model_id \notin preprocessing THEN answer.err = "Unavailable"
          ELSE IF bad_webhook(answer.webhook_url) THEN answer.err = "BadRequest"
          ELSE TRUE]_vars

\* C7 amended: the checks apply in the order webhook (BadRequest), resolve
\* (NotFound), readiness (Unavailable), and the first that fails decides.
C7_CodeOrder ==
    [][answered =>
          IF bad_webhook(answer.webhook_url)
          THEN answer.err = "BadRequest" /\ answer.msg = "webhook_url must use HTTPS"
          ELSE IF answer.model_id \notin DOMAIN registry.models
          THEN answer.err = "NotFound"
          ELSE IF answer.model_id \notin preprocessing THEN answer.err = "Unavailable"
          ELSE answer.err \notin {"NotFound", "Unavailable"}]_vars

C7_Witness ==
    \E i \in 1..Len(responses) :
        /\ responses[i].model_id = "nope"
        /\ bad_webhook(responses[i].webhook_url)
        /\ responses[i].err = "BadRequest"

\* C8: one prover task is spawned per receipt id, only once the receipt is in
\* the hot map, and the pipeline writes the receipt exactly twice: the insert
\* and, by the time its prover task has ended, one update.
C8_ExactlyTwoWrites ==
    \A id \in ReceiptIds :
        /\ Cardinality(events(id, "spawn")) <= 1
        /\ Cardinality(events(id, "insert")) <= 1
        /\ \A i \in events(id, "spawn") :
              log[id][i].before = Some(Proving) /\ events(id, "insert") = {i - 1}
        /\ prover[id].pc # "none" => Cardinality(events(id, "spawn")) = 1
        /\ prover[id].pc \in {"done", "panicked"}
              => Cardinality(events(id, "update")) = 1

\* every receipt value held for an id: the hot entry, the pending durable
\* writes, a durable read in flight, and the durable row as get rebuilds it
held(id) ==
    {unwrap(e) : e \in {e \in {cache[id], getter[id], sqlite_get(db, id, now)} : is_some(e)}}
        \cup {receipt \in blocking : receipt.id = id}

\* C9: Proving receipts have every terminal field null; Verified ones have
\* the proof fields and completed_at set and no error; Failed ones have error
\* and completed_at set and no proof_hash; completed_at >= created_at. In
\* both tiers (the durable tier is read column by column).
C9_TerminalFields ==
    \A id \in ReceiptIds :
        /\ \A r \in held(id) :
              /\ r.status = Proving =>
                    /\ r.completed_at = None /\ r.proof_hash = None /\ r.proof_size = None
                    /\ r.prove_time_ms = None /\ r.verify_time_ms = None /\ r.error = None
              /\ r.status = Verified =>
                    /\ is_some(r.completed_at) /\ is_some(r.proof_hash)
                    /\ is_some(r.proof_size) /\ is_some(r.prove_time_ms)
                    /\ is_some(r.verify_time_ms) /\ r.error = None
              /\ r.status = Failed =>
                    is_some(r.completed_at) /\ is_some(r.error) /\ r.proof_hash = None
              /\ is_some(r.completed_at) => unwrap(r.completed_at) >= r.created_at
        /\ is_some(db[id]) =>
              LET row == unwrap(db[id])
              IN  /\ row.status = "proving" =>
                        /\ row.completed_at = None /\ row.proof_hash = None
                        /\ row.proof_size = None /\ row.prove_time_ms = None
                        /\ row.verify_time_ms = None /\ row.error = None
                  /\ row.status = "verified" =>
                        /\ is_some(row.completed_at) /\ is_some(row.proof_hash)
                        /\ is_some(row.proof_size) /\ is_some(row.prove_time_ms)
                        /\ is_some(row.verify_time_ms) /\ row.error = None
                  /\ row.status = "failed" =>
                        is_some(row.completed_at) /\ is_some(row.error)
                        /\ row.proof_hash = None

C9_Witness ==
    \E id \in ReceiptIds :
        /\ is_some(db[id]) /\ unwrap(db[id]).status = "failed"
        /\ is_some(cache[id]) /\ unwrap(cache[id]).status = Failed
        /\ unwrap(unwrap(cache[id]).completed_at) > unwrap(cache[id]).created_at

\* a well-formed digest: "0x" followed by the hex of the hashed bytes
is_digest(h) == Len(h) = 2 /\ h[1] = "0x"

\* C10: every receipt in the hot map or the durable table has a status among
\* Proving, Verified, Failed (in its text form in the table) and carries the
\* three commitments computed before its first insert: the digest of its
\* model's artifact, of the tensor handed to its prover and of its raw
\* output; no update changes them.
C10_HashesPopulated ==
    \A id \in ReceiptIds :
        /\ \A r \in held(id) :
              /\ r.status \in ReceiptStatus
              /\ is_digest(r.model_hash) /\ is_digest(r.input_hash)
              /\ is_digest(r.output_hash)
              /\ r.model_hash = compute_model_commitment(r.model_id)
              /\ r.input_hash = hash_tensor(prover[id].input_tensor)
              /\ r.output_hash = hash_tensor(r.output.raw_output)
        /\ is_some(db[id]) =>
              /\ unwrap(db[id]).status \in {"proving", "verified", "failed"}
              /\ from_str(unwrap(db[id]).status) \in ReceiptStatus
        /\ is_some(cache[id]) /\ is_some(db[id]) =>
              /\ unwrap(db[id]).model_hash = unwrap(cache[id]).model_hash
              /\ unwrap(db[id]).input_hash = unwrap(cache[id]).input_hash
              /\ unwrap(db[id]).output_hash = unwrap(cache[id]).output_hash

C10_Witness ==
    \E id \in ReceiptIds :
        /\ is_some(db[id]) /\ unwrap(db[id]).status = "verified"
        /\ is_some(cache[id]) /\ unwrap(cache[id]).status = Verified
        /\ unwrap(cache[id]).model_id = "authorization"

\* the status the pipeline last wrote for a receipt (its insert or its update)
latest_status(id) ==
    LET writes == events(id, "insert") \cup events(id, "update")
    IN  IF writes = {} THEN None
        ELSE log[id][CHOOSE i \in writes : \A j \in writes : j <= i].after

\* C11: when a durable write of a receipt has failed (the error line was
\* logged), the hot map stays authoritative: get(id) returns the receipt in
\* the state the pipeline last wrote, also after the periodic cleanup ran.
C11_WriteFailureInvisible ==
    \A id \in ReceiptIds :
        id \in sqlite_errors
        => /\ is_some(visible(id))
           /\ status_of(visible(id)) = latest_status(id)

\* the readiness gate of run_single_prove lets model_id through
passes_gate(reg, pre, model_id) == admission(reg, pre, model_id, None).err = "ok"

\* C12: the preprocessing cache is insert-only: no step of the startup
\* worker, the upload handlers, submit_proof or the prover removes an entry,
\* so a model that passes the readiness gate passes it in every later state.
C12_CacheInsertOnly ==
    [][ /\ preprocessing \subseteq preprocessing'
        /\ \A model_id \in ModelIds \cup UploadIds :
              passes_gate(registry, preprocessing, model_id)
              => passes_gate(registry', preprocessing', model_id) ]_vars

C12_Witness ==
    \E model_id \in UploadIds :
        /\ model_id \in preprocessing
        /\ "authorization" \in preprocessing
        /\ \E i \in 1..Len(replies) :
              /\ replies[i].handler = "prove_model"
              /\ replies[i].model_id = Some(model_id)
              /\ replies[i].err = "Internal"

\* C13: when the background preprocessing of an uploaded model failed or
\* panicked, the model has no cache entry, its artifact directory is removed
\* and its descriptor is not registered (submit_proof answers NotFound).
C13_UploadAtomicAdmission ==
    \A model_id \in UploadIds :
        upload_tasks[model_id] = "failed"
        => /\ model_id \notin preprocessing
           /\ uploaded_dirs[model_id] = None
           /\ registry_get(registry, model_id) = None
           /\ admission(registry, preprocessing, model_id, None).err = "NotFound"

\* C14: when an upload-and-prove call that generated a model id returned an
\* error (sanity check, load validation, preprocessing or the composed
\* submit_proof), the artifact directory is removed and the descriptor is
\* not registered.
C14_ProveModelAtomicAdmission ==
    \A i \in 1..Len(replies) :
        ( /\ replies[i].handler = "prove_model"
          /\ replies[i].err # "ok"
          /\ replies[i].msg # "Failed to save model"
          /\ is_some(replies[i].model_id) )
        => /\ uploaded_dirs[unwrap(replies[i].model_id)] = None
           /\ registry_get(registry, unwrap(replies[i].model_id)) = None

\* a step in which batch_prove is called: it answers at once, or its first
\* item is suspended on its inference task
batch_called ==
    \/ /\ calls' = calls
       /\ Len(replies') = Len(replies) + 1
       /\ replies'[Len(replies')].handler = "batch"
    \/ /\ Len(calls') = Len(calls) + 1
       /\ calls'[Len(calls')].caller.handler = "batch"

\* the requests that call was sent
batch_sent ==
    IF calls' = calls THEN replies'[Len(replies')].requests
    ELSE calls'[Len(calls')].caller.requests

\* C15: a batch of more than 5 requests is answered BadRequest citing the
\* cap with no item processed (no receipt in either tier, no write-behind
\* task, no prover, no call and no answer of submit_proof); a batch of 1 to 5
\* requests is not rejected by the cap: its first item is processed.
C15_BatchCap ==
    [][batch_called =>
          /\ Len(batch_sent) > 5 =>
                /\ Len(replies') = Len(replies) + 1
                /\ replies'[Len(replies')].err = "BadRequest"
                /\ replies'[Len(replies')].msg = "Maximum 5 requests per batch"
                /\ UNCHANGED <<cache, db, blocking, prover, responses, log, calls>>
          /\ Len(batch_sent) \in 1..5 =>
                IF calls' = calls
                THEN /\ replies'[Len(replies')].msg # "Maximum 5 requests per batch"
                     /\ Len(responses') = Len(responses) + 1
                     /\ responses'[Len(responses')].model_id = batch_sent[1].model_id
                ELSE /\ calls'[Len(calls')].model_id = batch_sent[1].model_id
                     /\ replies' = replies]_vars

C15_Witness ==
    /\ "authorization" \in preprocessing
    /\ \E i \in 1..Len(replies) :
          /\ replies[i].handler = "batch"
          /\ Len(replies[i].requests) = 6
          /\ replies[i].err = "BadRequest"
    /\ \A id \in DOMAIN cache : cache[id] = None

\* a step of verify: only verify writes verdicts or (under SpecVerify) reads
\* the durable tier on behalf of a caller
verify_step == verdicts' # verdicts \/ getter' # getter

\* C16: verify answers valid = true exactly when the receipt it got is
\* Verified, answers valid = false with status "proving" / "failed" for a
\* Proving / Failed receipt, and NotFound exactly when the id is in neither
\* tier; verify never modifies the receipt: it schedules no durable write,
\* changes no durable row, every receipt value held after it was held before
\* it, and the receipt a reader of the store is given for the id is the same
\* after a step of verify as before it.
C16_VerifyReportsStatus ==
    /\ [](\A id \in ReceiptIds :
            is_some(verdicts[id]) =>
                LET got == unwrap(verdicts[id]).got
                    reply == unwrap(verdicts[id]).reply
                IN  IF got = None THEN reply.err = "NotFound"
                    ELSE /\ reply.err = "ok"
                         /\ unwrap(reply.value).receipt_id = id
                         /\ unwrap(reply.value).valid = (unwrap(got).status = Verified)
                         /\ unwrap(got).status = Verified
                               => unwrap(reply.value).status = "verified"
                         /\ unwrap(got).status = Proving
                               => unwrap(reply.value).status = "proving"
                         /\ unwrap(got).status = Failed
                               => unwrap(reply.value).status = "failed")
    /\ [][verify_step =>
            /\ db' = db /\ blocking' = blocking /\ log' = log
            /\ \A id \in ReceiptIds :
                  /\ held(id)' \subseteq held(id)
                  /\ visible(id)' = visible(id)
                  /\ verdicts'[id] # verdicts[id] =>
                        ( unwrap(verdicts'[id]).reply.err = "NotFound"
                          <=> (cache[id] = None /\ db[id] = None) )
                  /\ ( verdicts'[id] # verdicts[id]
                       /\ unwrap(verdicts'[id]).reply.err = "ok" ) =>
                        unwrap(verdicts'[id]).got = visible(id)']_vars

\* C17: predicted_class is the index of a maximum element of raw_output, and
\* among equal maxima the lowest index (indices are 0-based).
C17_LowestIndexOnTies ==
    is_some(probe) =>
        LET raw_output == unwrap(probe).raw_output
            predicted == unwrap(probe).predicted_class + 1
        IN  /\ predicted \in 1..Len(raw_output)
            /\ \A j \in 1..Len(raw_output) : raw_output[j] <= raw_output[predicted]
            /\ \A j \in 1..(predicted - 1) : raw_output[j] < raw_output[predicted]

\* a submitted value of a field of the descriptor's schema lies outside
\* [min, max]
out_of_range(model_desc, input) ==
    /\ is_some(input.fields)
    /\ is_some(model_desc.fields)
    /\ \E i \in 1..Len(unwrap(model_desc.fields)) :
          LET schema == unwrap(model_desc.fields)[i]
              fields == unwrap(input.fields)
          IN  /\ schema.name \in DOMAIN fields
              /\ \/ fields[schema.name] < schema.min
                 \/ fields[schema.name] > schema.max

\* the answer the last call got
last_response == responses[Len(responses)]

\* C18: a structured request that passes admission and carries a field value
\* below the schema's min or above its max is answered BadRequest, and no
\* receipt is created.
C18_RangeValidated ==
    [][\A input \in StructuredInputs, w \in Webhooks :
          ( /\ run_single_prove("graded", input, w)
            /\ admission(registry, preprocessing, "graded", w).err = "ok"
            /\ out_of_range(GradedDescriptor, input) )
          => /\ Len(responses') = Len(responses) + 1
             /\ last_response'.err = "BadRequest"
             /\ calls' = calls
             /\ cache' = cache]_vars

\* a submitted field of the schema whose key "{field_name}_{v}" the model's
\* vocabulary does not hold
unresolved_key(model_desc, input) ==
    /\ is_some(input.fields)
    /\ is_some(model_desc.fields)
    /\ \E i \in 1..Len(unwrap(model_desc.fields)) :
          LET name == unwrap(model_desc.fields)[i].name
              fields == unwrap(input.fields)
          IN  /\ name \in DOMAIN fields
              /\ feature_key(name, fields[name]) \notin DOMAIN vocabs[model_desc.id].map

\* C19: a structured request that passes admission and carries a field/value
\* key the vocabulary cannot resolve is answered with an error, and no receipt
\* is created.
C19_UnresolvedKeyFails ==
    [][\A input \in StructuredInputs, w \in Webhooks :
          ( /\ run_single_prove("graded", input, w)
            /\ admission(registry, preprocessing, "graded", w).err = "ok"
            /\ unresolved_key(GradedDescriptor, input) )
          => /\ Len(responses') = Len(responses) + 1
             /\ last_response'.err # "ok"
             /\ calls' = calls
             /\ cache' = cache]_vars

\* in this step the prover task of a receipt writes a terminal status
writes_terminal(id) ==
    /\ prover[id].pc \in {"queued", "proving", "updating"}
    /\ Len(log'[id]) = Len(log[id]) + 1
    /\ log'[id][Len(log'[id])].op = "update"
    /\ log'[id][Len(log'[id])].after \in {Some(Verified), Some(Failed)}

\* C20: whenever the prover task of a receipt submitted with a webhook URL
\* writes a terminal status (Verified, or Failed for whatever reason), it goes
\* on to fire the webhook for that receipt.
C20_WebhookOnEveryTerminal ==
    [][\A id \in ReceiptIds :
          (writes_terminal(id) /\ is_some(prover[id].webhook_url))
          => prover'[id].pc = "webhook"]_vars

\* the POSTs of a delivery trail, in order
posts_of(trail) == SelectSeq(trail, LAMBDA e : e.op = "post")

\* C21: per receipt at most two POSTs are made; a second POST follows only a
\* first one that ended in a network error, with the backoff sleep in between;
\* once the first POST got an HTTP response of any status, the task is over
\* with exactly one POST.
C21_WebhookRetryBound ==
    \A id \in ReceiptIds :
        LET trail == deliveries[id].trail
        IN  /\ Len(posts_of(trail)) <= 2
            /\ Len(posts_of(trail)) = 2 =>
                  /\ posts_of(trail)[1].result = "network_error"
                  /\ trail = <<posts_of(trail)[1], Slept, posts_of(trail)[2]>>
            /\ ( Len(trail) >= 1 /\ trail[1].result # "network_error" ) =>
                  /\ deliveries[id].pc = "done"
                  /\ Len(posts_of(trail)) = 1

C21_Witness ==
    \E id \in ReceiptIds :
        /\ Len(posts_of(deliveries[id].trail)) = 2
        /\ deliveries[id].pc = "done"

\* C22: registering a descriptor whose id the registry already holds is
\* rejected: the stored descriptor and the listing order stay as they were.
C22_DuplicateIdRejected ==
    [][\A model \in RegistryCandidates :
          (register_call(model) /\ model.id \in DOMAIN registry.models)
          => registry' = registry]_vars

RECURSIVE power_of_two(_)
\* n is a positive power of two
power_of_two(n) == n >= 1 /\ (n = 1 \/ (n % 2 = 0 /\ power_of_two(n \div 2)))

\* validity of a manifest as the claim states it
valid_manifest(toml_model) ==
    /\ toml_model.input_type \in {"text", "structured_fields", "raw"}
    /\ toml_model.input_dim > 0
    /\ toml_model.labels # <<>>
    /\ power_of_two(toml_model.trace_length)
    /\ toml_model.input_type = "structured_fields" =>
          \A i \in 1..Len(toml_model.fields) :
              toml_model.fields[i].max >= toml_model.fields[i].min

\* C23: a scan registers the descriptor of a manifest with an id not yet
\* registered if and only if the manifest is valid.
C23_ManifestValidated ==
    [][\A toml_model \in Manifests :
          (scan_subdir(toml_model, TRUE, TRUE) /\ toml_model.id \notin DOMAIN registry.models)
          => (toml_model.id \in DOMAIN registry'.models <=> valid_manifest(toml_model))]_vars

\* the answer the last upload call got
last_reply == replies[Len(replies)]

\* C24: upload_model answers an artifact over 5 MiB with PayloadTooLarge and
\* writes nothing, does not reject an artifact of exactly 5 MiB for its size,
\* and answers an artifact that fails the sanity check or the load validation
\* with Unprocessable, its directory removed.
C24_UploadErrorKinds ==
    [][/\ \A request \in {r \in UploadRequests : replies' # replies \/ up_call' # up_call},
             saved \in SaveOutcomes :
             upload_model(request, saved) =>
               LET file == request.onnx_file
               IN  /\ ( /\ is_some(file)
                        /\ request.read = "ok"
                        /\ unwrap(file).len > MaxUploadBytes ) =>
                         /\ Len(replies') = Len(replies) + 1
                         /\ last_reply'.err = "PayloadTooLarge"
                         /\ uploaded_dirs' = uploaded_dirs
                   /\ ( is_some(file) /\ unwrap(file).len = MaxUploadBytes ) =>
                         ~(replies' # replies /\ last_reply'.err = "PayloadTooLarge")
                   /\ ( /\ upload_parse(request).err = "ok"
                        /\ saved = "ok"
                        /\ ~upload_magic_ok(unwrap(file)) ) =>
                         /\ Len(replies') = Len(replies) + 1
                         /\ last_reply'.err = "Unprocessable"
                         /\ uploaded_dirs'[unwrap(last_reply'.model_id)] = None
       /\ upload_validated(FALSE) =>
             /\ last_reply'.err = "Unprocessable"
             /\ uploaded_dirs'[unwrap(last_reply'.model_id)] = None]_vars

\* C25 as stated: each path accepts a file at its magic-byte check if and
\* only if the file's first byte is 0x08.
C25_FirstByteOnly ==
    is_some(probe) =>
        LET bytes == unwrap(probe).bytes
            first_is_08 == bytes.len >= 1 /\ bytes.head[1] = 8
        IN  /\ unwrap(probe).upload <=> first_is_08
            /\ unwrap(probe).prove_model <=> first_is_08

\* C25: each path accepts a file at its magic-byte check if and only if the
\* file has at least two bytes and its first byte is 0x08; the two paths
\* accept the same files.
C25_MagicChecksAgree ==
    is_some(probe) =>
        LET bytes == unwrap(probe).bytes
            looks_like_protobuf == bytes.len >= 2 /\ bytes.head[1] = 8
        IN  /\ unwrap(probe).upload <=> looks_like_protobuf
            /\ unwrap(probe).prove_model <=> looks_like_protobuf
            /\ unwrap(probe).upload <=> unwrap(probe).prove_model

\* a file that starts with 08 and with neither ONNX prefix passed both checks
C25_Witness ==
    /\ is_some(probe)
    /\ unwrap(probe).bytes = Artifact(5, <<8, 18, 3, 4>>)
    /\ unwrap(probe).upload
    /\ unwrap(probe).prove_model

\* C26: the prover task of a receipt always finds the preprocessing keys of
\* its model: it leaves its queue for the proof, never for the failure "No
\* preprocessing available", and no receipt carries that error.
C26_KeysAlwaysFound ==
    /\ [](\A id \in ReceiptIds :
            \A entry \in held(id) :
                entry.error # Some("No preprocessing available"))
    /\ [][\A id \in ReceiptIds :
            (prover[id].pc = "queued" /\ prover'[id].pc # "queued")
            => prover'[id].pc = "proving"]_vars

\* a prover task started and found its keys
C26_Witness ==
    \E id \in ReceiptIds :
        /\ prover[id].pc = "proving"
        /\ prover[id].model_id \in preprocessing

\* a hot entry that is max_age old or older
aged(id, max_age) == is_some(cache[id]) /\ unwrap(cache[id]).created_at <= now - max_age

\* a hot entry that is older than max_age
older(id, max_age) == is_some(cache[id]) /\ unwrap(cache[id]).created_at < now - max_age

\* C27 as stated: cleanup(max_age) removes from the hot map exactly the
\* entries older than max_age, whatever their status, keeps every other entry
\* as it is and leaves the durable table alone; nothing else removes a hot
\* entry, and no step ever deletes a durable row.
C27_RemovesOlderOnly ==
    /\ [][cleanup_cache(CacheMaxAgeSecs) =>
            /\ \A id \in ReceiptIds :
                  cache'[id] = IF older(id, CacheMaxAgeSecs) THEN None ELSE cache[id]
            /\ db' = db
            /\ blocking' = blocking]_vars
    /\ [][\A id \in ReceiptIds :
            /\ (is_some(cache[id]) /\ cache'[id] = None) => older(id, CacheMaxAgeSecs)
            /\ is_some(db[id]) => is_some(db'[id])]_vars

\* C27: cleanup(max_age) removes from the hot map exactly the entries that
\* are max_age old or older, whatever their status, keeps every younger entry
\* as it is and leaves the durable table alone; nothing else removes a hot
\* entry, and no step ever deletes a durable row.
C27_CleanupFrame ==
    /\ [][cleanup_cache(CacheMaxAgeSecs) =>
            /\ \A id \in ReceiptIds :
                  cache'[id] = IF aged(id, CacheMaxAgeSecs) THEN None ELSE cache[id]
            /\ db' = db
            /\ blocking' = blocking]_vars
    /\ [][\A id \in ReceiptIds :
            /\ (is_some(cache[id]) /\ cache'[id] = None) => aged(id, CacheMaxAgeSecs)
            /\ is_some(db[id]) => is_some(db'[id])]_vars

\* a receipt still Proving was evicted when it was exactly max_age old, and
\* its durable row is still there
C27_Witness ==
    \E id \in ReceiptIds :
        /\ cache[id] = None
        /\ is_some(db[id])
        /\ unwrap(db[id]).status = as_str(Proving)
        /\ prover[id].pc = "proving"
        /\ unwrap(db[id]).created_at = to_rfc3339(now - CacheMaxAgeSecs)

\* a step of get(id): it hands a result to its caller, or reads the durable row
get_step(id) == observed'[id] # observed[id] \/ getter'[id] # getter[id]

\* C28: get(id) returns the hot entry when there is one, otherwise the
\* durable row, which it copies into the hot map, otherwise absent; it never
\* changes the durable tier; and it leaves a hot entry that is present as it
\* is, so that two consecutive get(id) with no update and no eviction between
\* them return equal receipts.
C28_GetContract ==
    [][\A id \in ReceiptIds :
          get_step(id) =>
            /\ db' = db
            /\ blocking' = blocking
            /\ is_some(cache[id]) => cache'[id] = cache[id]
            /\ observed'[id] # observed[id] =>
                  LET result == unwrap(observed'[id].last)
                  IN  /\ is_some(result) => cache'[id] = result
                      /\ result = None => (cache[id] = None /\ db[id] = None)]_vars

\* in this step update(id, f) is called
update_called(id) ==
    /\ Len(log'[id]) = Len(log[id]) + 1
    /\ log'[id][Len(log'[id])].op \in {"update", "dropped"}

\* C29: update(id, f) on an id in neither tier is dropped: no hot entry, no
\* durable row, no durable write; when the hot entry is missing and the
\* durable row exists, f is applied to the durable copy, the result is put
\* into the hot map and a durable write of the result is scheduled.
C29_UpdateFallback ==
    [][\A id \in ReceiptIds :
          update_called(id) =>
            /\ (cache[id] = None /\ db[id] = None) =>
                  /\ cache' = cache
                  /\ db' = db
                  /\ blocking' = blocking
            /\ (cache[id] = None /\ is_some(db[id])) =>
                  LET copy == unwrap(sqlite_get(db, id, now))
                  IN  /\ is_some(cache'[id])
                      /\ unwrap(cache'[id]).status \in {Verified, Failed}
                      /\ unwrap(cache'[id]).completed_at = Some(now)
                      /\ unwrap(cache'[id]).created_at = copy.created_at
                      /\ unwrap(cache'[id]).input_hash = copy.input_hash
                      /\ unwrap(cache'[id]).output = copy.output
                      /\ blocking' = blocking \cup {unwrap(cache'[id])}
                      /\ db' = db]_vars

\* an update found its receipt in neither tier and was dropped
C29_Witness ==
    \E id \in ReceiptIds :
        /\ events(id, "dropped") # {}
        /\ cache[id] = None
        /\ db[id] = None

\* C30: every receipt POSTed to a webhook is the final receipt: its status is
\* terminal, never Proving, and it equals the receipt get(id) returns from
\* then on.
C30_WebhookBodyFinal ==
    \A id \in ReceiptIds :
        \A i \in 1..Len(deliveries[id].trail) :
            deliveries[id].trail[i].op = "post" =>
                /\ terminal(deliveries[id].trail[i].receipt)
                /\ is_some(visible(id)) => visible(id) = deliveries[id].trail[i].receipt

\* C31: a scan never replaces a descriptor whose id is registered and admits
\* a subdirectory only if it holds both model.toml and network.onnx; list()
\* returns every registered id exactly once, in the order of first
\* registration.
C31_ScanFirstWins ==
    /\ [](LET listed == list(registry)
          IN  /\ {listed[i].id : i \in 1..Len(listed)} = DOMAIN registry.models
              /\ \A i, j \in 1..Len(listed) : listed[i].id = listed[j].id => i = j)
    /\ [][/\ Len(registry'.order) >= Len(registry.order)
          /\ SubSeq(registry'.order, 1, Len(registry.order)) = registry.order
          /\ \A toml_model \in {m \in Manifests : m.id \in DOMAIN registry.models} :
                scan_subdir(toml_model, TRUE, TRUE) => registry' = registry
          /\ \A toml_exists \in BOOLEAN, onnx_exists \in BOOLEAN :
                ( /\ ~(toml_exists /\ onnx_exists)
                  /\ scan_subdir(CHOOSE toml_model \in Manifests : TRUE,
                                 toml_exists, onnx_exists) )
                => registry' = registry]_vars

\* a scan admitted a new model behind the ones registered before it, and the
\* scanned manifests of the registered id "tiny" replaced nothing
C31_Witness ==
    /\ registry.order = <<"authorization", "tiny", "graded", "extra">>
    /\ registry.models["extra"].name = "Extra"
    /\ registry.models["tiny"] = TinyDescriptor

\* C32: the startup worker visits the descriptors registered at startup one
\* by one, in order, and gets through all of them whatever fails on the way.
\* The visit of a model whose artifact is missing, or whose preprocessing
\* panics, moves the worker on by one and changes nothing else: the cache
\* entries of the other models stay. The visit of a model whose artifact
\* exists and whose preprocessing succeeds gives that model its cache entry,
\* so every such model becomes ready.
C32_StartupProgress ==
    /\ <>[](worker = Len(model_list) + 1)
    /\ [][/\ worker' \in {worker, worker + 1}
          /\ preprocessing \subseteq preprocessing'
          /\ worker' = worker + 1 =>
                /\ preprocessing' \subseteq preprocessing \cup {model_list[worker].id}
                /\ ~model_path_exists(model_list[worker].id) =>
                      preprocessing' = preprocessing
                /\ ( /\ preprocess_next("panic")
                     /\ model_path_exists(model_list[worker].id) )
                   => preprocessing' = preprocessing
                /\ ( /\ preprocess_next("ok")
                     /\ model_path_exists(model_list[worker].id) )
                   => model_list[worker].id \in preprocessing']_vars

\* the worker is through: the built-in model had no artifact and was skipped,
\* the preprocessing of the next model panicked and it was skipped, and the
\* model after both is ready
C32_Witness ==
    /\ worker = Len(model_list) + 1
    /\ ~model_path_exists("authorization")
    /\ "authorization" \notin preprocessing
    /\ model_path_exists("tiny")
    /\ "tiny" \notin preprocessing
    /\ "graded" \in preprocessing

\* C33: while a prover task is between its preprocessing lookup and its
\* terminal update (prove and verify), the insert the startup worker is about
\* to make into the preprocessing cache can take its shard's write lock.
C33_InsertNeverBlocked ==
    \A id \in DOMAIN prover :
        (prover[id].pc = "proving" /\ worker <= Len(model_list))
        => can_write(model_list[worker].id)

\* some thread inside an operation of the receipt store takes its next step
StoreProgress ==
    \E t \in 1..MaxThreads :
        \/ \E evicts \in BOOLEAN : store_cache(t, evicts)
        \/ store_update_hit(t)
        \/ store_conn_lock(t)
        \/ \E written \in BOOLEAN : store_conn_unlock(t, written)
        \/ store_fill(t)

\* C34: at most one operation is inside the durable connection at a time;
\* a thread in update never waits for or holds the connection while it holds
\* the lock of the hot entry; and whenever a thread is inside an operation
\* of the store, some thread inside an operation can take its next step.
C34_StoreLocking ==
    /\ Cardinality({t \in 1..MaxThreads : threads.pc[t].at = "conn"}) <= 1
    /\ \A t \in 1..MaxThreads :
          (threads.pc[t].op = "update" /\ threads.entry = t)
          => threads.pc[t].at \notin {"conn_wait", "conn"}
    /\ (\E t \in 1..MaxThreads : threads.pc[t].at # "idle") => ENABLED StoreProgress

\* an update holds the hot entry while a write-behind task holds the
\* connection and a get waits for it
C34_Witness ==
    \E t, u, v \in 1..MaxThreads :
        /\ threads.pc[t] = [op |-> "update", at |-> "entry"]
        /\ threads.pc[u] = [op |-> "db_insert", at |-> "conn"]
        /\ threads.pc[v] = [op |-> "get", at |-> "conn_wait"]

RECURSIVE sum_over(_, _)
\* the sum of the counts f holds for the keys of `keys`
sum_over(f, keys) ==
    IF keys = {} THEN 0
    ELSE LET k == CHOOSE x \in keys : TRUE IN f[k] + sum_over(f, keys \ {k})

\* C35: what the metrics endpoint answers is computed from the table alone
\* and adds up: total_proofs is the number of rows, it is the sum of
\* verified, failed and proving, and the per-model counts sum to it; a receipt
\* that is in the hot map and has no row yet is not in the total.
C35_StatsConsistent ==
    [][metrics =>
         LET stats == unwrap(probe')
         IN  /\ stats.total_proofs = Cardinality({id \in DOMAIN db : is_some(db[id])})
             /\ stats.total_proofs = stats.verified + stats.failed + stats.proving
             /\ sum_over(stats.by_model, DOMAIN stats.by_model) = stats.total_proofs
             /\ \A id \in DOMAIN cache :
                   (is_some(cache[id]) /\ db[id] = None)
                   => stats.total_proofs
                        < Cardinality({i \in DOMAIN cache : is_some(cache[i]) \/ is_some(db[i])})]_vars

\* the endpoint answered while one receipt had its row, a verified one, and
\* another receipt was in the hot map only
C35_Witness ==
    /\ probe = Some(get_stats(db))
    /\ unwrap(probe).total_proofs = 1
    /\ unwrap(probe).verified = 1
    /\ \E id \in DOMAIN cache : is_some(cache[id]) /\ db[id] = None

\* C36: whenever the prover task calls update for its receipt, the receipt
\* is in the hot map or has its row in the table, so the update is applied.
C36_UpdateNeverDropped ==
    [][\A id \in ReceiptIds :
          (update_called(id) /\ prover[id].pc \in {"queued", "proving", "updating"})
          => /\ is_some(cache[id]) \/ is_some(db[id])
             /\ log'[id][Len(log'[id])].op = "update"]_vars

\* C37: batch_prove goes through its items in request order and stops at
\* the first one submit_proof refuses, answering with that error: no later
\* item is processed, the receipts of the earlier items are in the store
\* with their provers spawned, and once such a prover has ended its receipt
\* is Verified or Failed.
C37_BatchNotAtomic ==
    /\ [][\A i \in 1..Len(calls), inference \in InferenceOutcomes :
             (run_single_prove_resume(i, inference) /\ calls[i].caller.handler = "batch") =>
                LET caller == calls[i].caller
                    returned == responses'[Len(responses) + 1]
                    reply == replies'[Len(replies')]
                IN  /\ returned.model_id = calls[i].model_id
                    /\ returned.err # "ok" =>
                          /\ Len(responses') = Len(responses) + 1
                          /\ calls' = remove_at(calls, i)
                          /\ Len(replies') = Len(replies) + 1
                          /\ reply.err = returned.err /\ reply.msg = returned.msg
                          /\ reply.requests = caller.requests
                    /\ returned.err = "ok" =>
                          /\ is_some(cache'[unwrap(returned.receipt_id)])
                          /\ prover'[unwrap(returned.receipt_id)].pc = "queued"
                    /\ (returned.err = "ok" /\ caller.rest = <<>>) =>
                          /\ Len(responses') = Len(responses) + 1
                          /\ calls' = remove_at(calls, i)
                          /\ Len(replies') = Len(replies) + 1
                          /\ reply.err = "ok"
                          /\ reply.requests = caller.requests
                    /\ (returned.err = "ok" /\ caller.rest # <<>>) =>
                          \/ /\ Len(calls') = Len(calls)
                             /\ calls'[Len(calls')].model_id = caller.rest[1].model_id
                             /\ calls'[Len(calls')].caller.rest = Tail(caller.rest)
                             /\ Len(responses') = Len(responses) + 1
                             /\ replies' = replies
                          \/ /\ calls' = remove_at(calls, i)
                             /\ Len(responses') = Len(responses) + 2
                             /\ responses'[Len(responses')].model_id = caller.rest[1].model_id
                             /\ responses'[Len(responses')].err # "ok"
                             /\ Len(replies') = Len(replies) + 1
                             /\ reply.err = responses'[Len(responses')].err
                             /\ reply.requests = caller.requests]_vars
    /\ [](\A id \in DOMAIN prover :
            ( /\ replies # <<>>
              /\ replies[Len(replies)].err # "ok"
              /\ prover[id].pc \in {"done", "panicked"} )
            => terminal(visible(id)))

\* C38: every model id with an entry in the preprocessing cache is
\* registered; and the health endpoint answers ready = true exactly when
\* every registered model has a cache entry.
C38_CacheWithinRegistry ==
    /\ [](preprocessing \subseteq DOMAIN registry.models)
    /\ [][health =>
             (unwrap(probe').ready <=> DOMAIN registry.models \subseteq preprocessing)]_vars

====
